---- MODULE Spec2Model ----
(***************************************************************************)
(* devcert: the ephemeral file registry (tmpFile / tmpClear), the openssl  *)
(* configuration builder, the certificate issuance engine with its         *)
(* process-wide caches, the trust-store installer and the generateDevCert  *)
(* entry point that sequences them.                                        *)
(*                                                                         *)
(* Strings the code concatenates are sequences of string pieces, so that   *)
(* "prefix + name + index" is \o and two paths are equal exactly when the  *)
(* concatenations are.  A file path starts with the random prefix (one     *)
(* piece).  Every async function is cut at its awaits: one action per      *)
(* stretch of code between two suspension points.                          *)
(***************************************************************************)
EXTENDS Integers, Sequences, FiniteSets, TLC

(* ------------------------------ bounds -------------------------------- *)
\* top-level calls made in one process
NumCalls == 2
\* tmpFile calls the registry driver makes in one session
MaxAlloc == 4
\* distinct outputs the toolkit can produce for one request (serial, time)
MaxSerial == 2
\* failures of the environment in one run: a file operation or a command
\* that fails although what it needs is there
MaxFaults == 1

(* --------------------------- program constants ------------------------ *)
\* /^(.|\.){1,64}$/
MaxCommonNameLen == 64

Calls == 1..NumCalls
Serials == 1..MaxSerial

Range(s) == {s[i] : i \in 1..Len(s)}

(* ----------------------------- common names --------------------------- *)
CNFoo == <<"f", "o", "o">>
CNBar == <<"b", "a", "r">>
CNEmpty == << >>
CNNewline == <<"a", "\n">>
CNLong == [i \in 1..(MaxCommonNameLen + 1) |-> "x"]
ValidNames == {CNFoo, CNBar}
CommonNames == ValidNames \cup {CNEmpty, CNNewline, CNLong}

\* the characters `.' does not match in a JavaScript regular expression
LineTerminators == {"\n", "\r"}

\* a slip: `+' for `{1,64}', no upper limit on the length
MatchesAnyLength(cn) ==
    /\ Len(cn) >= 1
    /\ \A i \in 1..Len(cn) : cn[i] \notin LineTerminators

\* commonName.match(/^(.|\.){1,64}$/): 1 to 64 characters, none a line
\* terminator ($ without the m flag matches at the very end only)
MatchesCommonName(cn) ==
    /\ Len(cn) >= 1
    /\ Len(cn) <= MaxCommonNameLen
    /\ \A i \in 1..Len(cn) : cn[i] \notin LineTerminators

(* --------------------------- number to string ------------------------- *)
DigitChar == <<"0", "1", "2", "3", "4", "5", "6", "7", "8", "9">>

RECURSIVE ToDecimal(_)
\* string + number: the number's decimal digits
ToDecimal(n) ==
    IF n < 10 THEN <<DigitChar[n + 1]>>
    ELSE ToDecimal(n \div 10) \o <<DigitChar[(n % 10) + 1]>>

(* ------------------------- ephemeral file registry -------------------- *)
\* a slip: `if' for `while', one retry only
ProbeOnce(files, file, uniqueIndex) ==
    IF file \in Range(files) THEN file \o ToDecimal(1) ELSE file

RECURSIVE ProbeFromOne(_, _, _)
\* a slip: the counter starts at 1, so the first suffix is 2
ProbeFromOne(files, file, uniqueIndex) ==
    LET tmpFileUnique == IF uniqueIndex = 0 THEN file
                         ELSE file \o ToDecimal(uniqueIndex + 1)
    IN IF tmpFileUnique \in Range(files)
       THEN ProbeFromOne(files, file, uniqueIndex + 1)
       ELSE tmpFileUnique

RECURSIVE Probe(_, _, _)
\* let tmpFileUnique = file; let uniqueIndex = 0;
\* while (tmpFiles.indexOf(tmpFileUnique) !== -1) tmpFileUnique = file + ++uniqueIndex;
Probe(files, file, uniqueIndex) ==
    LET tmpFileUnique == IF uniqueIndex = 0 THEN file
                         ELSE file \o ToDecimal(uniqueIndex)
    IN IF tmpFileUnique \in Range(files)
       THEN Probe(files, file, uniqueIndex + 1)
       ELSE tmpFileUnique

\* A JavaScript value that may be undefined/null/'' is None or Some(v).
None == << >>
Some(v) == <<v>>
IsSome(o) == Len(o) = 1
Val(o) == o[1]

\* tmpFile(name) on the registry reg = [prefix, files, names], files being
\* None (tmpFiles is undefined or null) or Some(array); rnd is the prefix
\* Math.random() yields if the session starts here.  The result is the
\* registry afterwards and the path returned.  names records the name behind
\* each entry of the array.
TmpFile(reg, name, rnd) ==
    LET started == IF ~IsSome(reg.files)
                   THEN [prefix |-> rnd, files |-> << >>, names |-> << >>]
                   ELSE [prefix |-> reg.prefix, files |-> Val(reg.files),
                         names |-> reg.names]
        file == <<started.prefix>> \o name
        unique == Probe(started.files, file, 0)
    IN [reg |-> [prefix |-> started.prefix,
                 files |-> Some(Append(started.files, unique)),
                 names |-> Append(started.names, name)],
        path |-> unique]

(* -------------------------------- state -------------------------------- *)
VARIABLES
    platform,         \* process.platform
    tmpPrefix,        \* let tmpPrefix
    tmpFiles,         \* let tmpFiles: None, or Some(the array of paths)
    tmpNames,         \* history: the name behind each entry of the array
    rndFile,          \* let rndFile: None, or Some(path)
    cachedConfPaths,  \* the Map commonName -> ICachedOpensslConf
    cachedRoot,       \* const cachedRoot = {cert, commonName, key}
    fs,               \* the files on disk: path -> [data, mode]
    dirs,             \* the throwaway directories on disk
    listeners,        \* http servers listening: the file each serves and
                      \* the answers it has given
    faults,           \* failures of the environment so far
    call              \* the top-level calls: locals and position of each

vars == <<platform, tmpPrefix, tmpFiles, tmpNames, rndFile, cachedConfPaths,
          cachedRoot, fs, dirs, listeners, faults, call>>

Platforms == {"darwin", "linux", "win32", "freebsd"}
\* Math.round(Math.random() * 36 ** 10).toString(36) under os.tmpdir()
Prefixes == {"/tmp/p", "/tmp/q"}

NoPath == << >>

NoCall ==
    [op |-> "none", pc |-> "idle", commonName |-> << >>,
     opensslConfPath |-> NoPath, caKey |-> NoPath, caCert |-> NoPath,
     keyFile |-> NoPath, keyRet |-> "none", certFilePath |-> NoPath,
     keyFilePath |-> NoPath, csrFile |-> NoPath, caCertsDir |-> "none",
     conf |-> None, buf |-> None, site |-> "none", step |-> 0,
     nss |-> << >>, toolFound |-> "unknown", certutilPath |-> NoPath,
     clearIdx |-> 0, clearLive |-> FALSE, clearArr |-> << >>,
     err |-> "none", result |-> "none", bundle |-> None,
     log |-> << >>, used |-> {}, effects |-> {}]

Reg == [prefix |-> tmpPrefix, files |-> tmpFiles, names |-> tmpNames]

SetReg(r) ==
    /\ tmpPrefix' = r.prefix
    /\ tmpFiles' = r.files
    /\ tmpNames' = r.names

RegUnchanged == UNCHANGED <<tmpPrefix, tmpFiles, tmpNames>>

\* no call is between its start and its end
Quiet == \A c \in DOMAIN call : call[c].pc \in {"idle", "done"}

\* the calls are made one after the other, in the order of their numbers
MayStart(c) ==
    /\ call[c].pc = "idle"
    /\ \A d \in DOMAIN call : d < c => call[d].pc = "done"
    /\ \A d \in DOMAIN call : d > c => call[d].pc = "idle"

\* the locals of a finished call are dropped
Finished(rec, result, err) ==
    [NoCall EXCEPT !.op = rec.op, !.pc = "done", !.commonName = rec.commonName,
                   !.result = result, !.err = err,
                   !.bundle = IF result = "throw" THEN None ELSE rec.bundle,
                   !.log = rec.log, !.used = rec.used, !.effects = rec.effects]

Logged(rec, event) == [rec EXCEPT !.log = Append(@, event)]

(* ------------------------------- tmpClear ----------------------------- *)
\* without the try/catch, a failed unlink ends the call
AfterUnlinkNoCatch(idx, len, ok) ==
    IF ~ok THEN "throw" ELSE IF idx < len THEN "next" ELSE "end"

\* with the try/catch around the loop, a failed unlink ends the loop
AfterUnlinkCatchOutside(idx, len, ok) ==
    IF ~ok THEN "end" ELSE IF idx < len THEN "next" ELSE "end"

\* for (const file of tmpFiles) { try { await fs.unlink(file); } catch (e) {} }
\* what follows the unlink of entry idx of an array of len entries
AfterUnlink(idx, len, ok) ==
    IF idx < len THEN "next" ELSE "end"

\* the caller's continuation once tmpClear() has returned
ClearReturned(rec) ==
    IF rec.op = "tmpClear"
    THEN Finished(Logged(rec, "clearEnd"), "ok", "none")
    ELSE [Logged(rec, "clearEnd") EXCEPT !.pc = "gdc_cleared", !.clearIdx = 0,
                                          !.clearLive = FALSE, !.clearArr = << >>]

\* tmpFiles = null; a loop still running over the array keeps the array
DropRegistry(c, rec) ==
    /\ tmpFiles' = None
    /\ tmpNames' = << >>
    /\ UNCHANGED tmpPrefix
    /\ call' = [d \in DOMAIN call |->
                  IF d = c THEN rec
                  ELSE IF call[d].pc = "clear_unlink" /\ call[d].clearLive
                       THEN [call[d] EXCEPT !.clearLive = FALSE,
                                            !.clearArr = Val(tmpFiles)]
                       ELSE call[d]]

\* tmpClear() from its call to its first await (or its return); rec is the
\* caller's record
EnterTmpClear(c, rec) ==
    LET r == Logged(rec, "clearStart")
    IN IF ~IsSome(tmpFiles)
       THEN /\ call' = [call EXCEPT ![c] = ClearReturned(r)]
            /\ RegUnchanged
       ELSE IF Val(tmpFiles) = << >>
       THEN DropRegistry(c, ClearReturned(r))
       ELSE /\ call' = [call EXCEPT ![c] = [r EXCEPT !.pc = "clear_unlink",
                                                      !.clearIdx = 1,
                                                      !.clearLive = TRUE]]
            /\ RegUnchanged

\* await fs.unlink(file) settles: the file is removed, or there was none
ClearUnlinkSettles(c) ==
    /\ call[c].pc = "clear_unlink"
    /\ LET arr == IF call[c].clearLive THEN Val(tmpFiles) ELSE call[c].clearArr
           file == arr[call[c].clearIdx]
           ok == file \in DOMAIN fs
           rec == [call[c] EXCEPT !.effects = @ \cup {IF ok THEN "unlinked"
                                                            ELSE "missing"}]
           after == AfterUnlink(rec.clearIdx, Len(arr), ok)
       IN /\ fs' = [p \in DOMAIN fs \ {file} |-> fs[p]]
          /\ CASE after = "next" ->
                    /\ call' = [call EXCEPT ![c] = [rec EXCEPT !.clearIdx = @ + 1]]
                    /\ RegUnchanged
               [] after = "end" -> DropRegistry(c, ClearReturned(rec))
               [] OTHER ->
                    /\ call' = [call EXCEPT ![c] = Finished(rec, "throw", "unlink")]
                    /\ RegUnchanged
    /\ UNCHANGED <<platform, rndFile, cachedConfPaths, cachedRoot, dirs, listeners, faults>>

(* --------------------- the registry used on its own ------------------- *)
\* names a caller asks for: one is another followed by a digit
RegistryNames == {<<"f", "o", "o">>, <<"f", "o", "o", "1">>, <<"k", "e", "y">>}

UserData == [data |-> [kind |-> "user"], mode |-> 6 * 64 + 4 * 8 + 4]

\* OpenSSL.tmpFile(name)
CallTmpFile(name, rnd) ==
    /\ Quiet
    /\ \E c \in DOMAIN call : call[c].pc = "idle"
    /\ IsSome(tmpFiles) => Len(Val(tmpFiles)) < MaxAlloc
    /\ SetReg(TmpFile(Reg, name, rnd).reg)
    /\ UNCHANGED <<platform, rndFile, cachedConfPaths, cachedRoot, fs, dirs, listeners, call, faults>>

\* the caller writes a file at a path it was given
CallWriteFile(i) ==
    /\ Quiet
    /\ IsSome(tmpFiles)
    /\ i \in 1..Len(Val(tmpFiles))
    /\ Val(tmpFiles)[i] \notin DOMAIN fs
    /\ fs' = [p \in DOMAIN fs \cup {Val(tmpFiles)[i]} |->
                IF p = Val(tmpFiles)[i] THEN UserData ELSE fs[p]]
    /\ UNCHANGED <<platform, tmpPrefix, tmpFiles, tmpNames, rndFile,
                   cachedConfPaths, cachedRoot, dirs, listeners, call, faults>>

\* await OpenSSL.tmpClear()
CallTmpClear(c) ==
    /\ MayStart(c)
    /\ EnterTmpClear(c, [NoCall EXCEPT !.op = "tmpClear"])
    /\ UNCHANGED <<platform, rndFile, cachedConfPaths, cachedRoot, fs, dirs, listeners, faults>>

InitState ==
    /\ tmpPrefix = "none"
    /\ tmpFiles = None
    /\ tmpNames = << >>
    /\ rndFile = None
    /\ cachedConfPaths = << >>
    /\ cachedRoot = [cert |-> None, commonName |-> << >>, key |-> None]
    /\ fs = << >>
    /\ dirs = {}
    /\ listeners = {}
    /\ faults = 0

InitRegistry ==
    /\ InitState
    /\ platform = "linux"
    /\ call = [c \in Calls |-> NoCall]

NextRegistry ==
    \/ \E name \in RegistryNames, rnd \in Prefixes : CallTmpFile(name, rnd)
    \/ \E i \in 1..MaxAlloc : CallWriteFile(i)
    \/ \E c \in Calls : CallTmpClear(c)
    \/ \E c \in Calls : ClearUnlinkSettles(c)

SpecRegistry == InitRegistry /\ [][NextRegistry]_vars

(* ------------------------------ the disk ------------------------------ *)
\* mode: 400 in fs.writeFile(keyFile, ..., {mode: 400}) and fs.chmod(keyFile, 400)
KeyMode == 400
\* the mode of a file created without one: 0o666
DefaultMode == 6 * 64 + 6 * 8 + 6

Empty == [kind |-> "empty"]

\* the data of a string that may be ''
DataOf(o) == IF IsSome(o) THEN Val(o) ELSE Empty

\* what is read at a path
DataAt(f, path) == IF path \in DOMAIN f THEN f[path].data ELSE [kind |-> "missing"]

\* a file is created with the mode given, or keeps its mode and gets the data
WriteFile(f, path, data, mode) ==
    [p \in DOMAIN f \cup {path} |->
        IF p # path THEN f[p]
        ELSE IF path \in DOMAIN f THEN [data |-> data, mode |-> f[path].mode]
             ELSE [data |-> data, mode |-> mode]]

\* the toolkit may leave its random state in the file RANDFILE names
WithSeed(f, seed) ==
    IF seed /\ IsSome(rndFile)
    THEN WriteFile(f, Val(rndFile), [kind |-> "seed"], DefaultMode)
    ELSE f

(* ---------------------- failures of the environment ------------------ *)
\* an operation settles with ok; forced: what it needs is missing, so that it
\* can only fail.  A failure that is not forced counts as a fault.
Fault(ok, forced) ==
    /\ ok => ~forced
    /\ (~ok /\ ~forced) => faults < MaxFaults
    /\ faults' = IF ~ok /\ ~forced THEN faults + 1 ELSE faults

(* ------------------------- failure of a call -------------------------- *)
\* a slip: the failure leaves generateDevCert without its finally block
ThrowPastFinally(rec, e) == Finished(rec, "throw", e)

\* a failure that nothing catches below the top-level call: generateDevCert
\* runs its finally block, any other call rejects
Throw(rec, e) ==
    IF rec.op = "generateDevCert"
    THEN [rec EXCEPT !.pc = "gdc_finally", !.err = e]
    ELSE Finished(rec, "throw", e)

(* ------------------------------ openssl() ----------------------------- *)
\* if (!rndFile) rndFile = tmpFile('rnd'); the registry and rndFile after it
Openssl(reg, rf, rnd) ==
    IF IsSome(rf) THEN [reg |-> reg, rndFile |-> rf]
    ELSE LET t == TmpFile(reg, <<"rnd">>, rnd)
         IN [reg |-> t.reg, rndFile |-> Some(t.path)]

(* -------------------------- generateOpensslConf ----------------------- *)
ConfData(conf) ==
    [kind |-> "conf", commonName |-> conf.commonName,
     databasePath |-> conf.databasePath, serialPath |-> conf.serialPath]

\* generateOpensslConf(commonName) from its call to its first await, or to
\* its return on a cached configuration
EnterGenerateOpensslConf(c, rec, rnd) ==
    IF rec.commonName \in DOMAIN cachedConfPaths
    THEN /\ call' = [call EXCEPT ![c] =
                       [rec EXCEPT !.pc = "conf_done",
                                   !.opensslConfPath = cachedConfPaths[rec.commonName].confPath,
                                   !.used = @ \cup {cachedConfPaths[rec.commonName].confPath},
                                   !.effects = @ \cup {"confhit"}]]
         /\ RegUnchanged
    ELSE LET t1 == TmpFile(Reg, <<"openssl.conf">>, rnd)
             t2 == TmpFile(t1.reg, <<"index.txt">>, rnd)
             t3 == TmpFile(t2.reg, <<"serial">>, rnd)
             conf == [commonName |-> rec.commonName, confPath |-> t1.path,
                      databasePath |-> t2.path, serialPath |-> t3.path]
         IN /\ SetReg(t3.reg)
            /\ call' = [call EXCEPT ![c] =
                          [rec EXCEPT !.pc = "conf_writing", !.conf = Some(conf),
                                      !.used = @ \cup {t1.path, t2.path, t3.path},
                                      !.effects = @ \cup {"alloc", "write"}]]

\* the three files as far as the writes named in landed have got
ConfFiles(f, conf, landed) ==
    LET f1 == IF "conf" \in landed
              THEN WriteFile(f, conf.confPath, ConfData(conf), DefaultMode) ELSE f
        f2 == IF "database" \in landed
              THEN WriteFile(f1, conf.databasePath, [kind |-> "ledger"], DefaultMode)
              ELSE f1
    IN IF "serial" \in landed
       THEN WriteFile(f2, conf.serialPath, [kind |-> "serial"], DefaultMode)
       ELSE f2

ConfWrites == {"conf", "database", "serial"}

\* await Promise.all([fs.writeFile(...), fs.writeFile(...), fs.writeFile(...)]):
\* the writes in landed succeed; with all three the configuration is cached and
\* returned, with fewer the call rejects.  (The writes still running when one
\* fails are taken to have settled when the rejection is handled.)
ConfWritesSettle(c, landed) ==
    /\ call[c].pc = "conf_writing"
    /\ Fault(landed = ConfWrites, FALSE)
    /\ LET rec == call[c]
           conf == Val(rec.conf)
       IN /\ fs' = ConfFiles(fs, conf, landed)
          /\ IF landed = ConfWrites
             THEN /\ cachedConfPaths' =
                       [n \in DOMAIN cachedConfPaths \cup {rec.commonName} |->
                           IF n = rec.commonName THEN conf
                           ELSE cachedConfPaths[n]]
                  /\ call' = [call EXCEPT ![c] =
                                [rec EXCEPT !.pc = "conf_done", !.conf = None,
                                            !.opensslConfPath = conf.confPath]]
             ELSE /\ call' = [call EXCEPT ![c] = Throw(rec, "writeFile")]
                  /\ UNCHANGED cachedConfPaths
    /\ UNCHANGED <<platform, tmpPrefix, tmpFiles, tmpNames, rndFile, cachedRoot,
                   dirs, listeners>>

\* a slip: the cached key is not looked at, every call runs genrsa
EnterGenerateKeyNoCache(c, rec, reg, ret, rnd) ==
    LET t == TmpFile(reg, <<"key">>, rnd)
        r == [rec EXCEPT !.keyFile = t.path, !.keyRet = ret,
                         !.used = @ \cup {t.path},
                         !.effects = @ \cup {"alloc"}]
        o == Openssl(t.reg, rndFile, rnd)
    IN /\ SetReg(o.reg)
       /\ rndFile' = o.rndFile
       /\ call' = [call EXCEPT ![c] =
                     [r EXCEPT !.pc = "key_genrsa",
                               !.used = @ \cup {Val(o.rndFile)},
                               !.effects = @ \cup {"toolkit", "genrsa"}]]

(* ------------------------------ generateKey --------------------------- *)
\* generateKey() from its call to its first await; reg is the registry the
\* caller has reached, ret names the caller
EnterGenerateKey(c, rec, reg, ret, rnd) ==
    LET t == TmpFile(reg, <<"key">>, rnd)
        r == [rec EXCEPT !.keyFile = t.path, !.keyRet = ret,
                         !.used = @ \cup {t.path},
                         !.effects = @ \cup {"alloc"}]
    IN IF IsSome(cachedRoot.key)
       THEN /\ SetReg(t.reg)
            /\ UNCHANGED rndFile
            /\ call' = [call EXCEPT ![c] =
                          [r EXCEPT !.pc = "key_writing", !.buf = cachedRoot.key,
                                    !.effects = @ \cup {"write"}]]
       ELSE LET o == Openssl(t.reg, rndFile, rnd)
            IN /\ SetReg(o.reg)
               /\ rndFile' = o.rndFile
               /\ call' = [call EXCEPT ![c] =
                             [r EXCEPT !.pc = "key_genrsa",
                                       !.used = @ \cup {Val(o.rndFile)},
                                       !.effects = @ \cup {"toolkit", "genrsa"}]]

\* generateKey() returns keyFile to generateRootCertificate or to
\* generateSignedCertificate
KeyReturned(rec) ==
    [rec EXCEPT !.pc = IF rec.keyRet = "root" THEN "root_key_done"
                       ELSE "leaf_key_done",
                !.keyFilePath = rec.keyFile, !.buf = None]

\* await fs.writeFile(keyFile, cachedRoot.key, {encoding: 'utf8', mode: 400})
KeyWriteSettles(c, ok) ==
    /\ call[c].pc = "key_writing"
    /\ Fault(ok, FALSE)
    /\ IF ok
       THEN /\ fs' = WriteFile(fs, call[c].keyFile, DataOf(call[c].buf), KeyMode)
            /\ call' = [call EXCEPT ![c] = KeyReturned(call[c])]
       ELSE /\ call' = [call EXCEPT ![c] = Throw(call[c], "writeFile")]
            /\ UNCHANGED fs
    /\ UNCHANGED <<platform, tmpPrefix, tmpFiles, tmpNames, rndFile,
                   cachedConfPaths, cachedRoot, dirs, listeners>>

\* await openssl(`genrsa -out ${keyFile} 2048`)
KeyGenrsaSettles(c, ok, k, seed) ==
    /\ call[c].pc = "key_genrsa"
    /\ Fault(ok, FALSE)
    /\ IF ok
       THEN /\ fs' = WithSeed(WriteFile(fs, call[c].keyFile,
                                        [kind |-> "key", id |-> k], DefaultMode),
                              seed)
            /\ call' = [call EXCEPT ![c].pc = "key_reading"]
       ELSE /\ call' = [call EXCEPT ![c] = Throw(call[c], "toolkit")]
            /\ UNCHANGED fs
    /\ UNCHANGED <<platform, tmpPrefix, tmpFiles, tmpNames, rndFile,
                   cachedConfPaths, cachedRoot, dirs, listeners>>

\* cachedRoot.key = await fs.readFile(keyFile, 'utf8')
KeyReadSettles(c, ok) ==
    /\ call[c].pc = "key_reading"
    /\ Fault(ok, call[c].keyFile \notin DOMAIN fs)
    /\ IF ok
       THEN /\ cachedRoot' = [cachedRoot EXCEPT !.key = Some(fs[call[c].keyFile].data)]
            /\ call' = [call EXCEPT ![c].pc = "key_chmod"]
       ELSE /\ call' = [call EXCEPT ![c] = Throw(call[c], "readFile")]
            /\ UNCHANGED cachedRoot
    /\ UNCHANGED <<platform, tmpPrefix, tmpFiles, tmpNames, rndFile,
                   cachedConfPaths, fs, dirs, listeners>>

\* await fs.chmod(keyFile, 400)
KeyChmodSettles(c, ok) ==
    /\ call[c].pc = "key_chmod"
    /\ Fault(ok, call[c].keyFile \notin DOMAIN fs)
    /\ IF ok
       THEN /\ fs' = [fs EXCEPT ![call[c].keyFile].mode = KeyMode]
            /\ call' = [call EXCEPT ![c] = KeyReturned(call[c])]
       ELSE /\ call' = [call EXCEPT ![c] = Throw(call[c], "chmod")]
            /\ UNCHANGED fs
    /\ UNCHANGED <<platform, tmpPrefix, tmpFiles, tmpNames, rndFile,
                   cachedConfPaths, cachedRoot, dirs, listeners>>

(* ----------------------- generateRootCertificate ---------------------- *)
\* a slip: generateDevCert goes from the root certificate straight to the leaf
RootReturnedSkipsInstall(rec, f) ==
    LET r == [Logged(rec, "rootEnd") EXCEPT
                !.caKey = rec.keyFilePath, !.caCert = rec.certFilePath,
                !.buf = None,
                !.bundle = Some([cert |-> DataAt(f, rec.certFilePath),
                                 key |-> DataAt(f, rec.keyFilePath)])]
    IN IF rec.op = "generateDevCert" THEN [r EXCEPT !.pc = "install_done"]
       ELSE Finished(r, "ok", "none")

\* what a root-certificate call hands back: the paths, and for the record the
\* contents found at them
RootReturned(rec, f) ==
    LET r == [Logged(rec, "rootEnd") EXCEPT
                !.caKey = rec.keyFilePath, !.caCert = rec.certFilePath,
                !.buf = None,
                !.bundle = Some([cert |-> DataAt(f, rec.certFilePath),
                                 key |-> DataAt(f, rec.keyFilePath)])]
    IN IF rec.op = "generateDevCert" THEN [r EXCEPT !.pc = "root_done"]
       ELSE Finished(r, "ok", "none")

\* generateRootCertificate(commonName, opensslConfPath) from its call to the
\* first await, which is inside generateKey()
EnterGenerateRootCertificate(c, rec, rnd) ==
    \E t \in {TmpFile(Reg, rec.commonName \o <<".crt">>, rnd)} :
        LET r == [Logged(rec, "rootStart") EXCEPT !.certFilePath = t.path,
                                                   !.used = @ \cup {t.path}]
        IN EnterGenerateKey(c, r, t.reg, "root", rnd)

\* a slip: the cached certificate is never used
RootCacheNeverHit(commonName) == FALSE

\* if (cachedRoot.commonName === commonName)
RootCacheHit(commonName) == cachedRoot.commonName = commonName

\* the key is there: write the cached certificate, or ask the toolkit for one
RootKeyDone(c, rnd) ==
    /\ call[c].pc = "root_key_done"
    /\ IF RootCacheHit(call[c].commonName)
       THEN /\ call' = [call EXCEPT ![c] =
                          [call[c] EXCEPT !.pc = "root_cert_writing",
                                          !.buf = cachedRoot.cert,
                                          !.effects = @ \cup {"write", "hit"}]]
            /\ UNCHANGED <<tmpPrefix, tmpFiles, tmpNames, rndFile>>
       ELSE LET o == Openssl(Reg, rndFile, rnd)
            IN /\ SetReg(o.reg)
               /\ rndFile' = o.rndFile
               /\ call' = [call EXCEPT ![c] =
                             [call[c] EXCEPT !.pc = "root_req",
                                             !.used = @ \cup {Val(o.rndFile)},
                                             !.effects = @ \cup {"toolkit", "miss"}]]
    /\ UNCHANGED <<platform, cachedConfPaths, cachedRoot, fs, dirs,
                   listeners, faults>>

\* await fs.writeFile(certFilePath, cachedRoot.cert)
RootCertWriteSettles(c, ok) ==
    /\ call[c].pc = "root_cert_writing"
    /\ Fault(ok, FALSE)
    /\ IF ok
       THEN /\ fs' = WriteFile(fs, call[c].certFilePath, DataOf(call[c].buf),
                               DefaultMode)
            /\ call' = [call EXCEPT ![c] = RootReturned(call[c], fs')]
       ELSE /\ call' = [call EXCEPT ![c] = Throw(call[c], "writeFile")]
            /\ UNCHANGED fs
    /\ UNCHANGED <<platform, tmpPrefix, tmpFiles, tmpNames, rndFile,
                   cachedConfPaths, cachedRoot, dirs, listeners>>

\* the self-signed certificate `req -x509' issues for the name, with the key
\* in the key file
RootCertData(commonName, key, serial) ==
    [kind |-> "cert", subject |-> commonName, issuer |-> commonName,
     key |-> key, serial |-> serial, ca |-> TRUE]

\* await openssl(`req -config ... -key ... -out ... -new -subj "/CN=..." -x509 ...`)
\* the toolkit fails without its configuration or without the key
RootReqSettles(c, ok, serial, seed) ==
    /\ call[c].pc = "root_req"
    /\ Fault(ok, ~(call[c].opensslConfPath \in DOMAIN fs /\ call[c].keyFilePath \in DOMAIN fs))
    /\ IF ok
       THEN /\ fs' = WithSeed(WriteFile(fs, call[c].certFilePath,
                                        RootCertData(call[c].commonName,
                                                     fs[call[c].keyFilePath].data,
                                                     serial),
                                        DefaultMode),
                              seed)
            /\ call' = [call EXCEPT ![c].pc = "root_reading"]
       ELSE /\ call' = [call EXCEPT ![c] = Throw(call[c], "toolkit")]
            /\ UNCHANGED fs
    /\ UNCHANGED <<platform, tmpPrefix, tmpFiles, tmpNames, rndFile,
                   cachedConfPaths, cachedRoot, dirs, listeners>>

\* a slip: the certificate is cached, the name it is for is not
CacheRootCertOnly(cache, cert, commonName) ==
    [cache EXCEPT !.cert = Some(cert)]

\* cachedRoot.cert = <what was read>; cachedRoot.commonName = commonName;
\* the two assignments follow each other with no await between them
CacheRoot(cache, cert, commonName) ==
    [cache EXCEPT !.cert = Some(cert), !.commonName = commonName]

\* cachedRoot.cert = await fs.readFile(certFilePath, 'utf8');
\* cachedRoot.commonName = commonName;
RootReadSettles(c, ok) ==
    /\ call[c].pc = "root_reading"
    /\ Fault(ok, call[c].certFilePath \notin DOMAIN fs)
    /\ IF ok
       THEN /\ cachedRoot' = CacheRoot(cachedRoot, fs[call[c].certFilePath].data,
                                        call[c].commonName)
            /\ call' = [call EXCEPT ![c] = RootReturned(call[c], fs)]
       ELSE /\ call' = [call EXCEPT ![c] = Throw(call[c], "readFile")]
            /\ UNCHANGED cachedRoot
    /\ UNCHANGED <<platform, tmpPrefix, tmpFiles, tmpNames, rndFile,
                   cachedConfPaths, fs, dirs, listeners>>

\* the caller has its configuration path and calls generateRootCertificate
CallGenerateRootCertificate(c, rnd) ==
    /\ call[c].pc = "conf_done"
    /\ EnterGenerateRootCertificate(c, Logged(call[c], "confEnd"), rnd)
    /\ UNCHANGED <<platform, cachedConfPaths, cachedRoot, fs, dirs,
                   listeners, faults>>

(* ---------------------- generateSignedCertificate --------------------- *)
\* the key is there: process.env.SAN = commonName; the request path is
\* allocated and the toolkit asked for the signing request
LeafKeyDone(c, rnd) ==
    /\ call[c].pc = "leaf_key_done"
    /\ LET t == TmpFile(Reg, call[c].commonName \o <<".csr">>, rnd)
           o == Openssl(t.reg, rndFile, rnd)
       IN /\ SetReg(o.reg)
          /\ rndFile' = o.rndFile
          /\ call' = [call EXCEPT ![c] =
                        [call[c] EXCEPT !.pc = "leaf_csr", !.csrFile = t.path,
                                        !.used = @ \cup {t.path, Val(o.rndFile)},
                                        !.effects = @ \cup {"toolkit"}]]
    /\ UNCHANGED <<platform, cachedConfPaths, cachedRoot, fs, dirs, listeners,
                   faults>>

\* `req -new' needs its configuration and the key
CsrInputsMissing(c) ==
    ~(/\ call[c].opensslConfPath \in DOMAIN fs
      /\ call[c].keyFilePath \in DOMAIN fs)

\* await openssl(`req -config ... -subj "/CN=..." -key ... -out ${csrFile} -new`);
\* then the certificate path is allocated, the throwaway directory made and
\* the toolkit asked to sign
LeafCsrSettles(c, ok, seed, rnd, dir) ==
    /\ call[c].pc = "leaf_csr"
    /\ Fault(ok, CsrInputsMissing(c))
    /\ IF ok
       THEN LET t == TmpFile(Reg, call[c].commonName \o <<".crt">>, rnd)
            IN /\ fs' = WithSeed(WriteFile(fs, call[c].csrFile,
                                           [kind |-> "csr",
                                            subject |-> call[c].commonName,
                                            key |-> fs[call[c].keyFilePath].data],
                                           DefaultMode),
                                 seed)
               /\ SetReg(t.reg)
               /\ dirs' = dirs \cup {dir}
               /\ call' = [call EXCEPT ![c] =
                             [call[c] EXCEPT !.pc = "leaf_ca",
                                             !.certFilePath = t.path,
                                             !.caCertsDir = dir,
                                             !.used = @ \cup {t.path}]]
       ELSE /\ call' = [call EXCEPT ![c] = Throw(call[c], "toolkit")]
            /\ UNCHANGED <<fs, tmpPrefix, tmpFiles, tmpNames, dirs>>
    /\ UNCHANGED <<platform, rndFile, cachedConfPaths, cachedRoot, listeners>>

\* `ca' needs its configuration, the ledger and the serial file the
\* configuration names, the request, and the CA's key and certificate
CaInputsMissing(c) ==
    LET conf == call[c].opensslConfPath
    IN ~(/\ conf \in DOMAIN fs
         /\ fs[conf].data.kind = "conf"
         /\ fs[conf].data.databasePath \in DOMAIN fs
         /\ fs[conf].data.serialPath \in DOMAIN fs
         /\ call[c].csrFile \in DOMAIN fs
         /\ call[c].caKey \in DOMAIN fs
         /\ call[c].caCert \in DOMAIN fs
         /\ fs[call[c].caCert].data.kind = "cert")

\* the certificate `ca' signs for the request with the CA's certificate
LeafCertData(csr, caCertData) ==
    [kind |-> "cert", subject |-> csr.subject, issuer |-> caCertData.subject,
     key |-> csr.key, serial |-> 0, ca |-> FALSE]

\* a slip: a failed `ca' command is run again
LeafCaSettlesRetry(c, ok, seed) ==
    /\ call[c].pc = "leaf_ca"
    /\ Fault(ok, CaInputsMissing(c))
    /\ IF ok
       THEN /\ fs' = WithSeed(WriteFile(fs, call[c].certFilePath,
                                        LeafCertData(fs[call[c].csrFile].data,
                                                     fs[call[c].caCert].data),
                                        DefaultMode),
                              seed)
            /\ call' = [call EXCEPT ![c].pc = "leaf_rimraf"]
       ELSE UNCHANGED <<fs, call>>
    /\ UNCHANGED <<platform, tmpPrefix, tmpFiles, tmpNames, rndFile,
                   cachedConfPaths, cachedRoot, dirs, listeners>>

\* await openssl(`ca -config ... -in ${csrFile} -out ${certFilePath} -outdir ...`)
LeafCaSettles(c, ok, seed) ==
    /\ call[c].pc = "leaf_ca"
    /\ Fault(ok, CaInputsMissing(c))
    /\ IF ok
       THEN /\ fs' = WithSeed(WriteFile(fs, call[c].certFilePath,
                                        LeafCertData(fs[call[c].csrFile].data,
                                                     fs[call[c].caCert].data),
                                        DefaultMode),
                              seed)
            /\ call' = [call EXCEPT ![c].pc = "leaf_rimraf"]
       ELSE /\ call' = [call EXCEPT ![c] = Throw(call[c], "toolkit")]
            /\ UNCHANGED fs
    /\ UNCHANGED <<platform, tmpPrefix, tmpFiles, tmpNames, rndFile,
                   cachedConfPaths, cachedRoot, dirs, listeners>>

\* await rimraf(caCertsDir); return { keyFilePath, certFilePath }
LeafRimrafSettles(c) ==
    /\ call[c].pc = "leaf_rimraf"
    /\ dirs' = dirs \ {call[c].caCertsDir}
    /\ call' = [call EXCEPT ![c] = [Logged(call[c], "leafEnd") EXCEPT
                                      !.pc = "leaf_done", !.caCertsDir = "none"]]
    /\ UNCHANGED <<platform, tmpPrefix, tmpFiles, tmpNames, rndFile,
                   cachedConfPaths, cachedRoot, fs, listeners, faults>>

(* ------------------------- installCertificateAuthority ---------------- *)
\* installCertificateAuthority() has resolved
InstallReturned(rec) ==
    [Logged(rec, "installEnd") EXCEPT !.pc = "install_done", !.site = "none",
                                      !.step = 0, !.nss = << >>,
                                      !.toolFound = "unknown",
                                      !.certutilPath = NoPath]

\* openCertificateInFirefox() up to `await getPort()'; back names the caller
EnterFirefox(rec, back) ==
    [rec EXCEPT !.pc = "ff_getport", !.site = back, !.nss = << >>,
                !.toolFound = "unknown", !.certutilPath = NoPath]

\* addCertificateToNSSCertDB() up to the first await of
\* lookupOrInstallCertutil(): commandExists('brew') on darwin,
\* commandExists('certutil') on linux
EnterNss(rec, site) ==
    [rec EXCEPT !.pc = IF platform = "darwin" THEN "nss_brew_exists"
                       ELSE "nss_certutil_exists",
                !.site = site, !.nss = << >>,
                !.toolFound = "unknown", !.certutilPath = NoPath]

\* addCertificateToNSSCertDB() rejects: addToLinuxTrustStores catches the
\* Firefox attempt and opens the certificate in Firefox, addToMacTrustStores
\* catches and does nothing, the attempt on ~/.pki/nssdb is not caught
NssFailed(rec, e) ==
    CASE rec.site = "linux_firefox" -> EnterFirefox(rec, "linux")
      [] rec.site = "mac_firefox" -> InstallReturned(rec)
      [] OTHER -> Throw(rec, e)

\* addCertificateToNSSCertDB() resolves
NssReturned(rec) ==
    IF rec.site = "linux_firefox" THEN EnterNss(rec, "linux_chrome")
    ELSE InstallReturned(rec)

\* openCertificateInFirefox() resolves
FirefoxReturned(rec) ==
    IF rec.site = "linux" THEN EnterNss(rec, "linux_chrome")
    ELSE InstallReturned(rec)

\* a slip: the switch has no default that throws, the Linux branch takes
\* every other platform
CallInstallAuthorityNoDefault(c) ==
    /\ call[c].pc = "root_done"
    /\ LET rec == Logged(call[c], "installStart")
           cmd == [rec EXCEPT !.effects = @ \cup {"truststore"}]
       IN call' = [call EXCEPT ![c] =
            CASE platform = "darwin" -> [cmd EXCEPT !.pc = "mac_security"]
              [] platform = "win32" -> [cmd EXCEPT !.pc = "win_certutil"]
              [] OTHER -> [cmd EXCEPT !.pc = "linux_cmd", !.step = 1]]
    /\ UNCHANGED <<platform, tmpPrefix, tmpFiles, tmpNames, rndFile,
                   cachedConfPaths, cachedRoot, fs, dirs, listeners, faults>>

\* await installAuthority(commonName, caPaths.certFilePath): the switch on
\* process.platform, each branch up to its first await
CallInstallAuthority(c) ==
    /\ call[c].pc = "root_done"
    /\ LET rec == Logged(call[c], "installStart")
           cmd == [rec EXCEPT !.effects = @ \cup {"truststore"}]
       IN call' = [call EXCEPT ![c] =
            CASE platform = "darwin" -> [cmd EXCEPT !.pc = "mac_security"]
              [] platform = "linux" -> [cmd EXCEPT !.pc = "linux_cmd", !.step = 1]
              [] platform = "win32" -> [cmd EXCEPT !.pc = "win_certutil"]
              [] OTHER -> Throw(rec, "platform")]
    /\ UNCHANGED <<platform, tmpPrefix, tmpFiles, tmpNames, rndFile,
                   cachedConfPaths, cachedRoot, fs, dirs, listeners, faults>>

\* the system commands of addToLinuxTrustStores, awaited one after the other:
\* sudo cp (twice), sudo update-ca-certificates
LinuxSystemCommands == 3

\* await exec(`sudo security add-trusted-cert ...`)
MacSecuritySettles(c, ok) ==
    /\ call[c].pc = "mac_security"
    /\ Fault(ok, FALSE)
    /\ call' = [call EXCEPT ![c] =
                  IF ok THEN EnterNss(call[c], "mac_firefox")
                  ELSE Throw(call[c], "truststore")]
    /\ UNCHANGED <<platform, tmpPrefix, tmpFiles, tmpNames, rndFile,
                   cachedConfPaths, cachedRoot, fs, dirs, listeners>>

\* await exec(`sudo cp ...`), await exec(`sudo cp ...`),
\* await exec(`sudo update-ca-certificates`)
LinuxCommandSettles(c, ok) ==
    /\ call[c].pc = "linux_cmd"
    /\ Fault(ok, FALSE)
    /\ call' = [call EXCEPT ![c] =
                  IF ~ok THEN Throw(call[c], "truststore")
                  ELSE IF call[c].step < LinuxSystemCommands
                       THEN [call[c] EXCEPT !.step = @ + 1]
                       ELSE EnterNss(call[c], "linux_firefox")]
    /\ UNCHANGED <<platform, tmpPrefix, tmpFiles, tmpNames, rndFile,
                   cachedConfPaths, cachedRoot, fs, dirs, listeners>>

\* try { await exec(`certutil -addstore -user root ...`) } catch (e) {}
WindowsCertutilSettles(c, ok) ==
    /\ call[c].pc = "win_certutil"
    /\ Fault(ok, FALSE)
    /\ call' = [call EXCEPT ![c] = EnterFirefox(call[c], "win")]
    /\ UNCHANGED <<platform, tmpPrefix, tmpFiles, tmpNames, rndFile,
                   cachedConfPaths, cachedRoot, fs, dirs, listeners>>

(* --------------------------- lookupOrInstallCertutil ------------------ *)
\* where the tools are once installed
InstalledCertutil == <<"/usr/bin/certutil">>
BrewNssPrefix == <<"/usr/local/opt/nss">>

\* what `await exec(cmd)' yields when the command succeeds: the object
\* {stdout, stderr} of util.promisify(cp.exec)
ExecResolves(stdout) ==
    [kind |-> "object", stdout |-> stdout, stderr |-> << >>]

\* value.toString(): a plain object has Object.prototype.toString
JsToString(v) ==
    IF v.kind = "object" THEN <<"[object Object]">> ELSE v.chars

\* s.trim(), for the line end a command prints after its answer
Trim(s) ==
    IF Len(s) > 0 /\ s[Len(s)] = "\n" THEN SubSeq(s, 1, Len(s) - 1) ELSE s

\* the shell can run `${certutilPath} -A ...'
Runnable(p) == p \in {InstalledCertutil, BrewNssPrefix \o <<"/bin/certutil">>}

\* process.platform === 'darwin' && await commandExists('brew'): the promise
\* of command-exists rejects when the command is missing
NssBrewExistsSettles(c, exists) ==
    /\ call[c].pc = "nss_brew_exists"
    /\ call' = [call EXCEPT ![c] =
                  IF exists THEN [call[c] EXCEPT !.pc = "nss_brew_prefix", !.step = 1]
                  ELSE NssFailed(call[c], "certutil")]
    /\ UNCHANGED <<platform, tmpPrefix, tmpFiles, tmpNames, rndFile,
                   cachedConfPaths, cachedRoot, fs, dirs, listeners, faults>>

\* try { await exec('brew --prefix nss') } catch (e) { await exec('brew install nss');
\* await exec('brew --prefix nss') }: step 1 is the attempt inside the try
NssBrewPrefixSettles(c, ok) ==
    /\ call[c].pc = "nss_brew_prefix"
    /\ call' = [call EXCEPT ![c] =
                  IF ok
                  THEN [call[c] EXCEPT
                          !.pc = "nss_looked_up", !.step = 0,
                          !.certutilPath =
                              Trim(JsToString(ExecResolves(BrewNssPrefix
                                                           \o <<"\n">>)))
                                  \o <<"/bin/certutil">>]
                  ELSE IF call[c].step = 1
                       THEN [call[c] EXCEPT !.pc = "nss_brew_install",
                                            !.effects = @ \cup {"install"}]
                       ELSE NssFailed(call[c], "certutil")]
    /\ UNCHANGED <<platform, tmpPrefix, tmpFiles, tmpNames, rndFile,
                   cachedConfPaths, cachedRoot, fs, dirs, listeners, faults>>

\* await exec('brew install nss')
NssBrewInstallSettles(c, ok) ==
    /\ call[c].pc = "nss_brew_install"
    /\ Fault(ok, FALSE)
    /\ call' = [call EXCEPT ![c] =
                  IF ok THEN [call[c] EXCEPT !.pc = "nss_brew_prefix", !.step = 2]
                  ELSE NssFailed(call[c], "certutil")]
    /\ UNCHANGED <<platform, tmpPrefix, tmpFiles, tmpNames, rndFile,
                   cachedConfPaths, cachedRoot, fs, dirs, listeners>>

\* process.platform === 'linux' && await commandExists('certutil'): rejects when
\* certutil is missing; when it is there the package is installed all the same
NssCertutilExistsSettles(c, exists) ==
    /\ call[c].pc = "nss_certutil_exists"
    /\ call' = [call EXCEPT ![c] =
                  IF exists THEN [call[c] EXCEPT !.pc = "nss_apt",
                                                 !.toolFound = "yes",
                                                 !.effects = @ \cup {"install"}]
                  ELSE NssFailed([call[c] EXCEPT !.toolFound = "no"],
                                 "certutil")]
    /\ UNCHANGED <<platform, tmpPrefix, tmpFiles, tmpNames, rndFile,
                   cachedConfPaths, cachedRoot, fs, dirs, listeners, faults>>

\* await exec('sudo apt install libnss3-tools')
NssAptSettles(c, ok) ==
    /\ call[c].pc = "nss_apt"
    /\ Fault(ok, FALSE)
    /\ call' = [call EXCEPT ![c] =
                  IF ok THEN [call[c] EXCEPT !.pc = "nss_which"]
                  ELSE NssFailed(call[c], "certutil")]
    /\ UNCHANGED <<platform, tmpPrefix, tmpFiles, tmpNames, rndFile,
                   cachedConfPaths, cachedRoot, fs, dirs, listeners>>

\* return (await exec('which certutil')).toString().trim()
NssWhichSettles(c, ok) ==
    /\ call[c].pc = "nss_which"
    /\ Fault(ok, FALSE)
    /\ call' = [call EXCEPT ![c] =
                  IF ok
                  THEN [call[c] EXCEPT
                          !.pc = "nss_looked_up",
                          !.certutilPath =
                              Trim(JsToString(ExecResolves(InstalledCertutil
                                                           \o <<"\n">>)))]
                  ELSE NssFailed(call[c], "certutil")]
    /\ UNCHANGED <<platform, tmpPrefix, tmpFiles, tmpNames, rndFile,
                   cachedConfPaths, cachedRoot, fs, dirs, listeners>>

(* -------------------------- addCertificateToNSSCertDB ----------------- *)
\* the directories the glob pattern of a call site can match
NssDirs == {"profileA", "profileB"}

\* one directory's position in the body of dirs.map(async ...)
NssDirStart == [st |-> "access8", ran |-> {}, has |-> {}]

\* lookupOrInstallCertutil() resolved with a path; with checkForOpenFirefox
\* the next await is exec('ps aux'), without it glob(nssDirGlob)
NssLookedUp(c) ==
    /\ call[c].pc = "nss_looked_up"
    /\ call' = [call EXCEPT ![c] =
                  [call[c] EXCEPT !.pc = IF call[c].site = "linux_chrome"
                                         THEN "nss_glob" ELSE "nss_ps"]]
    /\ UNCHANGED <<platform, tmpPrefix, tmpFiles, tmpNames, rndFile,
                   cachedConfPaths, cachedRoot, fs, dirs, listeners, faults>>

\* let runningProcesses = await exec('ps aux');
\* if (runningProcesses.indexOf('firefox') > -1): exec resolves with an object
\* {stdout, stderr} that has no indexOf, so the test throws a TypeError
NssPsSettles(c, ok) ==
    /\ call[c].pc = "nss_ps"
    /\ Fault(ok, FALSE)
    /\ call' = [call EXCEPT ![c] =
                  NssFailed(call[c], IF ok THEN "TypeError" ELSE "exec")]
    /\ UNCHANGED <<platform, tmpPrefix, tmpFiles, tmpNames, rndFile,
                   cachedConfPaths, cachedRoot, fs, dirs, listeners>>

\* const dirs = await glob(nssDirGlob); dirs.map(async ...) runs each body up
\* to its await access(.../cert8.db)
NssGlobSettles(c, matched) ==
    /\ call[c].pc = "nss_glob"
    /\ call' = [call EXCEPT ![c] =
                  [call[c] EXCEPT !.pc = "nss_dirs",
                                  !.nss = [d \in matched |-> NssDirStart]]]
    /\ UNCHANGED <<platform, tmpPrefix, tmpFiles, tmpNames, rndFile,
                   cachedConfPaths, cachedRoot, fs, dirs, listeners, faults>>

\* await access(path.join(potentialNSSDBDir, 'cert8.db')): a rejection lands in
\* the catch, whose first await is access(.../cert9.db)
NssAccess8Settles(c, d, exists) ==
    /\ call[c].pc = "nss_dirs"
    /\ d \in DOMAIN call[c].nss
    /\ call[c].nss[d].st = "access8"
    /\ call' = [call EXCEPT ![c].nss[d] =
                  [@ EXCEPT !.st = IF exists THEN "exec8" ELSE "access9",
                            !.has = IF exists THEN @ \cup {"cert8"} ELSE @,
                            !.ran = IF exists THEN @ \cup {"legacy"} ELSE @]]
    /\ UNCHANGED <<platform, tmpPrefix, tmpFiles, tmpNames, rndFile,
                   cachedConfPaths, cachedRoot, fs, dirs, listeners, faults>>

\* await exec(`certutil -A -d "dir" ...`): a rejection lands in the same catch
NssExec8Settles(c, d, ok) ==
    /\ call[c].pc = "nss_dirs"
    /\ d \in DOMAIN call[c].nss
    /\ call[c].nss[d].st = "exec8"
    /\ Fault(ok, ~Runnable(call[c].certutilPath))
    /\ call' = [call EXCEPT ![c].nss[d].st = IF ok THEN "done" ELSE "access9"]
    /\ UNCHANGED <<platform, tmpPrefix, tmpFiles, tmpNames, rndFile,
                   cachedConfPaths, cachedRoot, fs, dirs, listeners>>

\* await access(path.join(potentialNSSDBDir, 'cert9.db')) inside the inner try
NssAccess9Settles(c, d, exists) ==
    /\ call[c].pc = "nss_dirs"
    /\ d \in DOMAIN call[c].nss
    /\ call[c].nss[d].st = "access9"
    /\ call' = [call EXCEPT ![c].nss[d] =
                  [@ EXCEPT !.st = IF exists THEN "exec9" ELSE "done",
                            !.has = IF exists THEN @ \cup {"cert9"} ELSE @,
                            !.ran = IF exists THEN @ \cup {"modern"} ELSE @]]
    /\ UNCHANGED <<platform, tmpPrefix, tmpFiles, tmpNames, rndFile,
                   cachedConfPaths, cachedRoot, fs, dirs, listeners, faults>>

\* a slip: without the inner try/catch a rejected command rejects the body,
\* Promise.all and the call
NssExec9SettlesNoCatch(c, d, ok) ==
    /\ call[c].pc = "nss_dirs"
    /\ d \in DOMAIN call[c].nss
    /\ call[c].nss[d].st = "exec9"
    /\ Fault(ok, ~Runnable(call[c].certutilPath))
    /\ call' = [call EXCEPT ![c] =
                  IF ok THEN [call[c] EXCEPT !.nss[d].st = "done"]
                  ELSE NssFailed(call[c], "exec")]
    /\ UNCHANGED <<platform, tmpPrefix, tmpFiles, tmpNames, rndFile,
                   cachedConfPaths, cachedRoot, fs, dirs, listeners>>

\* await exec(`certutil -A -d "sql:dir" ...`): catch (e) {} swallows a rejection
NssExec9Settles(c, d, ok) ==
    /\ call[c].pc = "nss_dirs"
    /\ d \in DOMAIN call[c].nss
    /\ call[c].nss[d].st = "exec9"
    /\ Fault(ok, ~Runnable(call[c].certutilPath))
    /\ call' = [call EXCEPT ![c].nss[d].st = "done"]
    /\ UNCHANGED <<platform, tmpPrefix, tmpFiles, tmpNames, rndFile,
                   cachedConfPaths, cachedRoot, fs, dirs, listeners>>

\* await Promise.all(dirs.map(...)): every body resolves, so the call resolves
\* once each directory is done
NssAllSettled(c) ==
    /\ call[c].pc = "nss_dirs"
    /\ \A d \in DOMAIN call[c].nss : call[c].nss[d].st = "done"
    /\ call' = [call EXCEPT ![c] = NssReturned(call[c])]
    /\ UNCHANGED <<platform, tmpPrefix, tmpFiles, tmpNames, rndFile,
                   cachedConfPaths, cachedRoot, fs, dirs, listeners, faults>>

(* --------------------------- openCertificateInFirefox ----------------- *)
\* const port = await getPort(); http.createServer(...).listen(port);
\* await waitForUser()
FirefoxPortSettles(c) ==
    /\ call[c].pc = "ff_getport"
    /\ listeners' = listeners \cup {[file |-> call[c].caCert, answers |-> {}]}
    /\ call' = [call EXCEPT ![c] =
                  [call[c] EXCEPT !.pc = "ff_wait", !.step = 1,
                                  !.effects = @ \cup {"listen"}]]
    /\ UNCHANGED <<platform, tmpPrefix, tmpFiles, tmpNames, rndFile,
                   cachedConfPaths, cachedRoot, fs, dirs, faults>>

\* a slip: the handler of the second wait never resolves the promise
FirefoxUserEntersOnce(c) ==
    /\ call[c].pc = "ff_wait"
    /\ call[c].step = 1
    /\ call' = [call EXCEPT ![c] =
                  [call[c] EXCEPT !.step = 2, !.effects = @ \cup {"browser"}]]
    /\ UNCHANGED <<platform, tmpPrefix, tmpFiles, tmpNames, rndFile,
                   cachedConfPaths, cachedRoot, fs, dirs, listeners, faults>>

\* the operator presses Enter: after the first wait the browser is started
\* without awaiting it and the second wait begins, after the second the
\* function resolves (the server keeps listening)
FirefoxUserEnters(c) ==
    /\ call[c].pc = "ff_wait"
    /\ call' = [call EXCEPT ![c] =
                  IF call[c].step = 1
                  THEN [call[c] EXCEPT !.step = 2, !.effects = @ \cup {"browser"}]
                  ELSE FirefoxReturned(call[c])]
    /\ UNCHANGED <<platform, tmpPrefix, tmpFiles, tmpNames, rndFile,
                   cachedConfPaths, cachedRoot, fs, dirs, listeners, faults>>

\* the request handler of the server: res.writeHead(200, {'Content-type':
\* 'application/x-x509-ca-cert'}); res.write(await readFile(rootCertPath));
\* res.end(). When the read rejects the handler's promise rejects after the
\* head: no body is written and the response is never ended.
Answer(disk, file) ==
    IF file \in DOMAIN disk
    THEN [status |-> 200, type |-> "application/x-x509-ca-cert",
          body |-> Some(disk[file].data), ended |-> TRUE]
    ELSE [status |-> 200, type |-> "application/x-x509-ca-cert",
          body |-> None, ended |-> FALSE]

\* a request reaches a listening server; the read is done as it arrives
RequestArrives(l) ==
    /\ l \in listeners
    /\ listeners' = (listeners \ {l})
                       \cup {[l EXCEPT !.answers = @ \cup {Answer(fs, l.file)}]}
    /\ UNCHANGED <<platform, tmpPrefix, tmpFiles, tmpNames, rndFile,
                   cachedConfPaths, cachedRoot, fs, dirs, faults, call>>

(* -------------------- the issuance engine used on its own ------------- *)
\* root certificates a caller asks for, one call after the other
MaxRootCalls == 3

\* const confPath = await OpenSSL.generateOpensslConf(cn);
\* ... = await OpenSSL.generateRootCertificate(cn, confPath);
CallRootCertificateFor(c, cn, rnd) ==
    /\ MayStart(c)
    /\ EnterGenerateOpensslConf(c, [NoCall EXCEPT !.op = "generateRootCertificate",
                                                  !.commonName = cn,
                                                  !.log = <<"confStart">>], rnd)
    /\ UNCHANGED <<platform, rndFile, cachedConfPaths, cachedRoot, fs, dirs,
                   listeners, faults>>

\* generateRootCertificate is exported: nothing validates its argument
EngineNames == ValidNames \cup {CNEmpty}

InitEngine ==
    /\ InitState
    /\ platform = "linux"
    /\ call = [c \in 1..MaxRootCalls |-> NoCall]

NextEngine ==
    \/ \E c \in DOMAIN call, cn \in EngineNames, rnd \in Prefixes :
          CallRootCertificateFor(c, cn, rnd)
    \/ \E c \in DOMAIN call, landed \in SUBSET ConfWrites : ConfWritesSettle(c, landed)
    \/ \E c \in DOMAIN call, rnd \in Prefixes : CallGenerateRootCertificate(c, rnd)
    \/ \E c \in DOMAIN call, ok \in BOOLEAN : KeyWriteSettles(c, ok)
    \/ \E c \in DOMAIN call, ok, seed \in BOOLEAN, k \in Serials :
          KeyGenrsaSettles(c, ok, k, seed)
    \/ \E c \in DOMAIN call, ok \in BOOLEAN : KeyReadSettles(c, ok)
    \/ \E c \in DOMAIN call, ok \in BOOLEAN : KeyChmodSettles(c, ok)
    \/ \E c \in DOMAIN call, rnd \in Prefixes : RootKeyDone(c, rnd)
    \/ \E c \in DOMAIN call, ok \in BOOLEAN : RootCertWriteSettles(c, ok)
    \/ \E c \in DOMAIN call, ok, seed \in BOOLEAN, serial \in Serials :
          RootReqSettles(c, ok, serial, seed)
    \/ \E c \in DOMAIN call, ok \in BOOLEAN : RootReadSettles(c, ok)

SpecEngine == InitEngine /\ [][NextEngine]_vars

(* ------------------- overlapping calls of the engine ------------------ *)
\* calls may overlap: a call starts while earlier ones are still running
\* (the numbers only fix the order in which the calls start)
MayOverlap(c) ==
    /\ call[c].pc = "idle"
    /\ \A d \in DOMAIN call : d < c => call[d].pc # "idle"

\* the prefixes a process can draw, one for each registry session
PrefixPool == [i \in 1..(NumCalls + 1) |-> "/tmp/" \o ToString(i)]

\* the random prefix of a new session differs from every prefix drawn before
\* in the process: the first of the pool under which no call has a path
NextPrefix ==
    LET taken == {path[1] : path \in UNION {call[c].used : c \in DOMAIN call}}
        free == {i \in DOMAIN PrefixPool : PrefixPool[i] \notin taken}
    IN PrefixPool[CHOOSE i \in free : \A j \in free : i <= j]

\* generateOpensslConf(cn).then(confPath => generateRootCertificate(cn, confPath))
\* started without waiting for the calls before it
CallRootCertificateOverlapping(c, cn, rnd) ==
    /\ MayOverlap(c)
    /\ EnterGenerateOpensslConf(c, [NoCall EXCEPT !.op = "generateRootCertificate",
                                                  !.commonName = cn,
                                                  !.log = <<"confStart">>], rnd)
    /\ UNCHANGED <<platform, rndFile, cachedConfPaths, cachedRoot, fs, dirs,
                   listeners, faults>>

InitOverlapEngine ==
    /\ InitState
    /\ platform = "linux"
    /\ call = [c \in Calls |-> NoCall]

NextOverlapEngine ==
    \/ \E c \in DOMAIN call, cn \in ValidNames :
          CallRootCertificateOverlapping(c, cn, NextPrefix)
    \/ \E c \in DOMAIN call, landed \in SUBSET ConfWrites : ConfWritesSettle(c, landed)
    \/ \E c \in DOMAIN call : CallGenerateRootCertificate(c, NextPrefix)
    \/ \E c \in DOMAIN call, ok \in BOOLEAN : KeyWriteSettles(c, ok)
    \/ \E c \in DOMAIN call, ok, seed \in BOOLEAN, k \in Serials :
          KeyGenrsaSettles(c, ok, k, seed)
    \/ \E c \in DOMAIN call, ok \in BOOLEAN : KeyReadSettles(c, ok)
    \/ \E c \in DOMAIN call, ok \in BOOLEAN : KeyChmodSettles(c, ok)
    \/ \E c \in DOMAIN call : RootKeyDone(c, NextPrefix)
    \/ \E c \in DOMAIN call, ok \in BOOLEAN : RootCertWriteSettles(c, ok)
    \/ \E c \in DOMAIN call, ok, seed \in BOOLEAN, serial \in Serials :
          RootReqSettles(c, ok, serial, seed)
    \/ \E c \in DOMAIN call, ok \in BOOLEAN : RootReadSettles(c, ok)

SpecOverlapEngine == InitOverlapEngine /\ [][NextOverlapEngine]_vars

(* ---------------- the configuration builder used on its own ---------- *)
MaxConfCalls == 3

\* const confPath = await OpenSSL.generateOpensslConf(cn);
CallGenerateOpensslConf(c, cn, rnd) ==
    /\ MayStart(c)
    /\ EnterGenerateOpensslConf(c, [NoCall EXCEPT !.op = "generateOpensslConf",
                                                  !.commonName = cn,
                                                  !.log = <<"confStart">>], rnd)
    /\ UNCHANGED <<platform, rndFile, cachedConfPaths, cachedRoot, fs, dirs,
                   listeners, faults>>

\* return conf.confPath: the caller has the path
ConfReturns(c) ==
    /\ call[c].pc = "conf_done"
    /\ call[c].op = "generateOpensslConf"
    /\ call' = [call EXCEPT ![c] =
                  Finished(Logged(call[c], "confEnd"), "ok", "none")]
    /\ UNCHANGED <<platform, tmpPrefix, tmpFiles, tmpNames, rndFile,
                   cachedConfPaths, cachedRoot, fs, dirs, listeners, faults>>

InitConf ==
    /\ InitState
    /\ platform = "linux"
    /\ call = [c \in 1..MaxConfCalls |-> NoCall]

NextConf ==
    \/ \E c \in DOMAIN call, cn \in ValidNames, rnd \in Prefixes :
          CallGenerateOpensslConf(c, cn, rnd)
    \/ \E c \in DOMAIN call, landed \in SUBSET ConfWrites : ConfWritesSettle(c, landed)
    \/ \E c \in DOMAIN call : ConfReturns(c)
    \/ \E c \in DOMAIN call : CallTmpClear(c)
    \/ \E c \in DOMAIN call : ClearUnlinkSettles(c)

SpecConf == InitConf /\ [][NextConf]_vars

(* ------------------------------ generateDevCert ----------------------- *)
\* generateDevCert(commonName) up to `await commandExists('openssl')'
CallGenerateDevCert(c, cn) ==
    /\ MayStart(c)
    /\ call' = [call EXCEPT ![c] = [NoCall EXCEPT !.op = "generateDevCert",
                                                  !.pc = "gdc_cmdexists",
                                                  !.commonName = cn]]
    /\ UNCHANGED <<platform, tmpPrefix, tmpFiles, tmpNames, rndFile,
                   cachedConfPaths, cachedRoot, fs, dirs, listeners, faults>>

\* if (!await commandExists('openssl')) throw ...;
\* if (!commonName.match(/^(.|\.){1,64}$/)) throw ...;
\* try { const opensslConfPath = await generateOpensslConf(commonName);
\* both throws are above the try block
DevCertChecked(c, found, rnd) ==
    /\ call[c].pc = "gdc_cmdexists"
    /\ IF ~found
       THEN /\ call' = [call EXCEPT ![c] =
                          Finished(call[c], "throw", "openssl-missing")]
            /\ RegUnchanged
       ELSE IF ~MatchesCommonName(call[c].commonName)
       THEN /\ call' = [call EXCEPT ![c] =
                          Finished(call[c], "throw", "invalid-cn")]
            /\ RegUnchanged
       ELSE EnterGenerateOpensslConf(c, Logged(call[c], "confStart"), rnd)
    /\ UNCHANGED <<platform, rndFile, cachedConfPaths, cachedRoot, fs, dirs,
                   listeners, faults>>

\* const { keyFilePath, certFilePath } =
\*     await generateSignedCertificate(commonName, opensslConfPath, caPaths);
CallGenerateSignedCertificate(c, rnd) ==
    /\ call[c].pc = "install_done"
    /\ EnterGenerateKey(c, Logged(call[c], "leafStart"), Reg, "leaf", rnd)
    /\ UNCHANGED <<platform, cachedConfPaths, cachedRoot, fs, dirs, listeners,
                   faults>>

\* the three files of
\* Promise.all([readFile(keyFilePath), readFile(certFilePath), readFile(caPaths.certFilePath)])
ResultFiles(rec) == {rec.keyFilePath, rec.certFilePath, rec.caCert}

\* const [ key, cert, ca ] = await Promise.all([...]); return { ca, cert, commonName, key }
\* the return starts the finally block
ReadResultsSettle(c, ok) ==
    /\ call[c].pc = "leaf_done"
    /\ Fault(ok, ~(ResultFiles(call[c]) \subseteq DOMAIN fs))
    /\ call' = [call EXCEPT ![c] =
                  IF ok
                  THEN [Logged(call[c], "readEnd") EXCEPT
                          !.pc = "gdc_finally",
                          !.bundle = Some([key |-> fs[call[c].keyFilePath].data,
                                           cert |-> fs[call[c].certFilePath].data,
                                           ca |-> fs[call[c].caCert].data])]
                  ELSE Throw(call[c], "readFile")]
    /\ UNCHANGED <<platform, tmpPrefix, tmpFiles, tmpNames, rndFile,
                   cachedConfPaths, cachedRoot, fs, dirs, listeners>>

\* finally { await tmpClear(); }
DevCertFinally(c) ==
    /\ call[c].pc = "gdc_finally"
    /\ EnterTmpClear(c, call[c])
    /\ UNCHANGED <<platform, rndFile, cachedConfPaths, cachedRoot, fs, dirs,
                   listeners, faults>>

\* the finally block is through: the promise resolves with the bundle or
\* rejects with the pending error
DevCertSettles(c) ==
    /\ call[c].pc = "gdc_cleared"
    /\ call' = [call EXCEPT ![c] =
                  Finished(call[c],
                           IF call[c].err = "none" THEN "bundle" ELSE "throw",
                           call[c].err)]
    /\ UNCHANGED <<platform, tmpPrefix, tmpFiles, tmpNames, rndFile,
                   cachedConfPaths, cachedRoot, fs, dirs, listeners, faults>>

\* what is random in a call of the pipeline (the prefix of a registry session,
\* the key and the serial number the toolkit draws, the name of the
\* throwaway directory) is taken to differ from what any other call draws:
\* the values of call c carry the number c
SessionPrefix(c) == "/tmp/" \o ToString(c)

Issue(c) == c

Init ==
    /\ InitState
    /\ platform \in Platforms
    /\ call = [c \in Calls |-> NoCall]

Next ==
    \/ \E c \in DOMAIN call, cn \in CommonNames : CallGenerateDevCert(c, cn)
    \/ \E c \in DOMAIN call, found \in BOOLEAN :
          DevCertChecked(c, found, SessionPrefix(c))
    \/ \E c \in DOMAIN call, landed \in SUBSET ConfWrites : ConfWritesSettle(c, landed)
    \/ \E c \in DOMAIN call : CallGenerateRootCertificate(c, SessionPrefix(c))
    \/ \E c \in DOMAIN call, ok \in BOOLEAN : KeyWriteSettles(c, ok)
    \/ \E c \in DOMAIN call, ok, seed \in BOOLEAN :
          KeyGenrsaSettles(c, ok, Issue(c), seed)
    \/ \E c \in DOMAIN call, ok \in BOOLEAN : KeyReadSettles(c, ok)
    \/ \E c \in DOMAIN call, ok \in BOOLEAN : KeyChmodSettles(c, ok)
    \/ \E c \in DOMAIN call : RootKeyDone(c, SessionPrefix(c))
    \/ \E c \in DOMAIN call, ok \in BOOLEAN : RootCertWriteSettles(c, ok)
    \/ \E c \in DOMAIN call, ok, seed \in BOOLEAN :
          RootReqSettles(c, ok, Issue(c), seed)
    \/ \E c \in DOMAIN call, ok \in BOOLEAN : RootReadSettles(c, ok)
    \/ \E c \in DOMAIN call : CallInstallAuthority(c)
    \/ \E c \in DOMAIN call, ok \in BOOLEAN : MacSecuritySettles(c, ok)
    \/ \E c \in DOMAIN call, ok \in BOOLEAN : LinuxCommandSettles(c, ok)
    \/ \E c \in DOMAIN call, ok \in BOOLEAN : WindowsCertutilSettles(c, ok)
    \/ \E c \in DOMAIN call, exists \in BOOLEAN : NssBrewExistsSettles(c, exists)
    \/ \E c \in DOMAIN call, ok \in BOOLEAN : NssBrewPrefixSettles(c, ok)
    \/ \E c \in DOMAIN call, ok \in BOOLEAN : NssBrewInstallSettles(c, ok)
    \/ \E c \in DOMAIN call, exists \in BOOLEAN : NssCertutilExistsSettles(c, exists)
    \/ \E c \in DOMAIN call, ok \in BOOLEAN : NssAptSettles(c, ok)
    \/ \E c \in DOMAIN call, ok \in BOOLEAN : NssWhichSettles(c, ok)
    \/ \E c \in DOMAIN call : NssLookedUp(c)
    \/ \E c \in DOMAIN call, ok \in BOOLEAN : NssPsSettles(c, ok)
    \/ \E c \in DOMAIN call, matched \in SUBSET NssDirs : NssGlobSettles(c, matched)
    \/ \E c \in DOMAIN call, d \in NssDirs, exists \in BOOLEAN :
          NssAccess8Settles(c, d, exists)
    \/ \E c \in DOMAIN call, d \in NssDirs, ok \in BOOLEAN : NssExec8Settles(c, d, ok)
    \/ \E c \in DOMAIN call, d \in NssDirs, exists \in BOOLEAN :
          NssAccess9Settles(c, d, exists)
    \/ \E c \in DOMAIN call, d \in NssDirs, ok \in BOOLEAN : NssExec9Settles(c, d, ok)
    \/ \E c \in DOMAIN call : NssAllSettled(c)
    \/ \E c \in DOMAIN call : FirefoxPortSettles(c)
    \/ \E c \in DOMAIN call : FirefoxUserEnters(c)
    \/ \E c \in DOMAIN call : CallGenerateSignedCertificate(c, SessionPrefix(c))
    \/ \E c \in DOMAIN call : LeafKeyDone(c, SessionPrefix(c))
    \/ \E c \in DOMAIN call, ok, seed \in BOOLEAN :
          LeafCsrSettles(c, ok, seed, SessionPrefix(c), Issue(c))
    \/ \E c \in DOMAIN call, ok, seed \in BOOLEAN : LeafCaSettles(c, ok, seed)
    \/ \E c \in DOMAIN call : LeafRimrafSettles(c)
    \/ \E c \in DOMAIN call, ok \in BOOLEAN : ReadResultsSettle(c, ok)
    \/ \E c \in DOMAIN call : DevCertFinally(c)
    \/ \E c \in DOMAIN call : ClearUnlinkSettles(c)
    \/ \E c \in DOMAIN call : DevCertSettles(c)

Spec == Init /\ [][Next]_vars

(* --------------------- openssl() and its child process ---------------- *)
MaxStatus == 2

\* how a child process can end: its exit status and what it wrote
ExitStatuses == 0..MaxStatus
Outputs == {<< >>, <<"text">>}

\* a slip: the rule of the test helper, which rejects on an empty stdout with
\* a non-empty stderr as well
ExecStderrFails(status, stdout, stderr) ==
    IF status # 0 THEN [settled |-> "rejected", value |-> <<"error", status>>]
    ELSE IF stdout = << >> /\ stderr # << >>
    THEN [settled |-> "rejected", value |-> stderr]
    ELSE [settled |-> "resolved", value |-> [stdout |-> stdout, stderr |-> stderr]]

\* util.promisify(cp.exec): the promise rejects with the error exec() reports,
\* which it does on a non-zero exit status, and resolves with {stdout, stderr}
\* otherwise
ExecPromisified(status, stdout, stderr) ==
    IF status # 0 THEN [settled |-> "rejected", value |-> <<"error", status>>]
    ELSE [settled |-> "resolved", value |-> [stdout |-> stdout, stderr |-> stderr]]

\* openssl(cmd) up to `return exec(...)': the seed file is allocated on the
\* first call
CallOpenssl(c, rnd) ==
    /\ MayStart(c)
    /\ LET o == Openssl(Reg, rndFile, rnd)
       IN /\ SetReg(o.reg)
          /\ rndFile' = o.rndFile
          /\ call' = [call EXCEPT ![c] =
                        [NoCall EXCEPT !.op = "openssl", !.pc = "openssl_exec",
                                       !.effects = {"toolkit"},
                                       !.used = Range(o.reg.files)
                                                   \ Range(IF IsSome(tmpFiles)
                                                           THEN Val(tmpFiles)
                                                           ELSE << >>)]]
    /\ UNCHANGED <<platform, cachedConfPaths, cachedRoot, fs, dirs, listeners,
                   faults>>

\* the child process ends and the promise openssl() returned settles; buf
\* keeps what the child did
OpensslExecSettles(c, status, stdout, stderr) ==
    /\ call[c].pc = "openssl_exec"
    /\ LET r == ExecPromisified(status, stdout, stderr)
       IN call' = [call EXCEPT ![c] =
             [Finished(call[c],
                       IF r.settled = "rejected" THEN "throw" ELSE "resolve",
                       IF r.settled = "rejected" THEN "toolkit" ELSE "none")
                EXCEPT !.buf = Some([status |-> status, stdout |-> stdout,
                                     stderr |-> stderr])]]
    /\ UNCHANGED <<platform, tmpPrefix, tmpFiles, tmpNames, rndFile,
                   cachedConfPaths, cachedRoot, fs, dirs, listeners, faults>>

InitToolkit ==
    /\ InitState
    /\ platform = "linux"
    /\ call = [c \in Calls |-> NoCall]

NextToolkit ==
    \/ \E c \in DOMAIN call, rnd \in Prefixes : CallOpenssl(c, rnd)
    \/ \E c \in DOMAIN call, status \in ExitStatuses, stdout, stderr \in Outputs :
          OpensslExecSettles(c, status, stdout, stderr)

SpecToolkit == InitToolkit /\ [][NextToolkit]_vars

(* ---------------- generateDevCert in a responsive environment --------- *)
\* a step of a call that has started: a command, a file operation or a
\* lookup settles, or the operator presses Enter
Settles == Next /\ \A c \in DOMAIN call : call[c].pc = "idle" => call'[c].pc = "idle"

\* every external command returns and the operator gives every
\* acknowledgment asked for: what a started call waits for comes
SpecLive == Init /\ [][Next]_vars /\ WF_vars(Settles)

(* ------------------ generateDevCert and the fallback server ----------- *)
\* sequential generateDevCert calls on win32, where every installation opens
\* the certificate in Firefox, and the requests the servers receive
InitListener ==
    /\ InitState
    /\ platform = "win32"
    /\ call = [c \in Calls |-> NoCall]

NextListener ==
    \/ \E c \in DOMAIN call, cn \in ValidNames : CallGenerateDevCert(c, cn)
    \/ \E c \in DOMAIN call : DevCertChecked(c, TRUE, SessionPrefix(c))
    \/ \E c \in DOMAIN call : ConfWritesSettle(c, ConfWrites)
    \/ \E c \in DOMAIN call : CallGenerateRootCertificate(c, SessionPrefix(c))
    \/ \E c \in DOMAIN call, ok \in BOOLEAN : KeyWriteSettles(c, ok)
    \/ \E c \in DOMAIN call, ok \in BOOLEAN : KeyGenrsaSettles(c, ok, Issue(c), TRUE)
    \/ \E c \in DOMAIN call, ok \in BOOLEAN : KeyReadSettles(c, ok)
    \/ \E c \in DOMAIN call, ok \in BOOLEAN : KeyChmodSettles(c, ok)
    \/ \E c \in DOMAIN call : RootKeyDone(c, SessionPrefix(c))
    \/ \E c \in DOMAIN call, ok \in BOOLEAN : RootCertWriteSettles(c, ok)
    \/ \E c \in DOMAIN call, ok \in BOOLEAN : RootReqSettles(c, ok, Issue(c), TRUE)
    \/ \E c \in DOMAIN call, ok \in BOOLEAN : RootReadSettles(c, ok)
    \/ \E c \in DOMAIN call : CallInstallAuthority(c)
    \/ \E c \in DOMAIN call, ok \in BOOLEAN : WindowsCertutilSettles(c, ok)
    \/ \E c \in DOMAIN call : FirefoxPortSettles(c)
    \/ \E c \in DOMAIN call : FirefoxUserEnters(c)
    \/ \E c \in DOMAIN call : CallGenerateSignedCertificate(c, SessionPrefix(c))
    \/ \E c \in DOMAIN call : LeafKeyDone(c, SessionPrefix(c))
    \/ \E c \in DOMAIN call, ok \in BOOLEAN :
          LeafCsrSettles(c, ok, TRUE, SessionPrefix(c), Issue(c))
    \/ \E c \in DOMAIN call, ok \in BOOLEAN : LeafCaSettles(c, ok, TRUE)
    \/ \E c \in DOMAIN call : LeafRimrafSettles(c)
    \/ \E c \in DOMAIN call, ok \in BOOLEAN : ReadResultsSettle(c, ok)
    \/ \E c \in DOMAIN call : DevCertFinally(c)
    \/ \E c \in DOMAIN call : ClearUnlinkSettles(c)
    \/ \E c \in DOMAIN call : DevCertSettles(c)
    \/ \E l \in listeners : RequestArrives(l)

SpecListener == InitListener /\ [][NextListener]_vars

(* ------------------- overlapping calls of generateDevCert ------------- *)
\* generateDevCert(cn) called without waiting for the calls before it
CallGenerateDevCertOverlapping(c, cn) ==
    /\ MayOverlap(c)
    /\ call' = [call EXCEPT ![c] = [NoCall EXCEPT !.op = "generateDevCert",
                                                  !.pc = "gdc_cmdexists",
                                                  !.commonName = cn]]
    /\ UNCHANGED <<platform, tmpPrefix, tmpFiles, tmpNames, rndFile,
                   cachedConfPaths, cachedRoot, fs, dirs, listeners, faults>>

\* The order in which pending operations settle is the environment's. The
\* overlaps taken here are those where the operations of the call started
\* last settle first: an earlier call stays suspended at its await until the
\* later call has settled.
SettlesNext(c) ==
    \A d \in DOMAIN call : d > c => call[d].pc \in {"idle", "done"}

\* one platform: the registry and the engine are the same on all of them
InitOverlap ==
    /\ InitState
    /\ platform = "win32"
    /\ call = [c \in Calls |-> NoCall]

NextOverlap ==
    \/ \E c \in DOMAIN call, cn \in ValidNames : CallGenerateDevCertOverlapping(c, cn)
    \/ \E c \in DOMAIN call : SettlesNext(c) /\ DevCertChecked(c, TRUE, NextPrefix)
    \/ \E c \in DOMAIN call : SettlesNext(c) /\ ConfWritesSettle(c, ConfWrites)
    \/ \E c \in DOMAIN call : SettlesNext(c) /\ CallGenerateRootCertificate(c, NextPrefix)
    \/ \E c \in DOMAIN call, ok \in BOOLEAN : SettlesNext(c) /\ KeyWriteSettles(c, ok)
    \/ \E c \in DOMAIN call, ok \in BOOLEAN : SettlesNext(c) /\
          KeyGenrsaSettles(c, ok, Issue(c), TRUE)
    \/ \E c \in DOMAIN call, ok \in BOOLEAN : SettlesNext(c) /\ KeyReadSettles(c, ok)
    \/ \E c \in DOMAIN call, ok \in BOOLEAN : SettlesNext(c) /\ KeyChmodSettles(c, ok)
    \/ \E c \in DOMAIN call : SettlesNext(c) /\ RootKeyDone(c, NextPrefix)
    \/ \E c \in DOMAIN call, ok \in BOOLEAN : SettlesNext(c) /\ RootCertWriteSettles(c, ok)
    \/ \E c \in DOMAIN call, ok \in BOOLEAN : SettlesNext(c) /\
          RootReqSettles(c, ok, Issue(c), TRUE)
    \/ \E c \in DOMAIN call, ok \in BOOLEAN : SettlesNext(c) /\ RootReadSettles(c, ok)
    \/ \E c \in DOMAIN call : SettlesNext(c) /\ CallInstallAuthority(c)
    \/ \E c \in DOMAIN call, ok \in BOOLEAN : SettlesNext(c) /\ WindowsCertutilSettles(c, ok)
    \/ \E c \in DOMAIN call : SettlesNext(c) /\ FirefoxPortSettles(c)
    \/ \E c \in DOMAIN call : SettlesNext(c) /\ FirefoxUserEnters(c)
    \/ \E c \in DOMAIN call : SettlesNext(c) /\ CallGenerateSignedCertificate(c, NextPrefix)
    \/ \E c \in DOMAIN call : SettlesNext(c) /\ LeafKeyDone(c, NextPrefix)
    \/ \E c \in DOMAIN call, ok \in BOOLEAN : SettlesNext(c) /\
          LeafCsrSettles(c, ok, TRUE, NextPrefix, Issue(c))
    \/ \E c \in DOMAIN call, ok \in BOOLEAN : SettlesNext(c) /\ LeafCaSettles(c, ok, TRUE)
    \/ \E c \in DOMAIN call : SettlesNext(c) /\ LeafRimrafSettles(c)
    \/ \E c \in DOMAIN call, ok \in BOOLEAN : SettlesNext(c) /\ ReadResultsSettle(c, ok)
    \/ \E c \in DOMAIN call : SettlesNext(c) /\ DevCertFinally(c)
    \/ \E c \in DOMAIN call : SettlesNext(c) /\ ClearUnlinkSettles(c)
    \/ \E c \in DOMAIN call : SettlesNext(c) /\ DevCertSettles(c)

SpecOverlap == InitOverlap /\ [][NextOverlap]_vars

(* ------------------------- claims on the registry --------------------- *)
\* the array a running tmpClear iterates
ClearArray(c) ==
    IF call[c].clearLive THEN Val(tmpFiles) ELSE call[c].clearArr

\* C6: within one registry session tmpFile never returns the same path
\* twice: the paths returned since the last clear are pairwise different,
\* whatever names were asked for.
C6_PathsUnique ==
    IsSome(tmpFiles) =>
        \A i, j \in 1..Len(Val(tmpFiles)) :
            i # j => Val(tmpFiles)[i] # Val(tmpFiles)[j]

\* a session in which a name, the same name again, and that name followed by
\* a digit were all asked for
C6_Witness ==
    /\ IsSome(tmpFiles)
    /\ Len(tmpNames) >= 3
    /\ tmpNames[1] = <<"f", "o", "o">>
    /\ tmpNames[2] = <<"f", "o", "o">>
    /\ tmpNames[3] = <<"f", "o", "o", "1">>

\* how many of the first i requests of the session asked for the name of
\* request i
Occurrence(i) == Cardinality({j \in 1..i : tmpNames[j] = tmpNames[i]})

\* prefix + name, followed by k - 1 from the second request on
NumberedPath(i) ==
    IF Occurrence(i) = 1 THEN <<tmpPrefix>> \o tmpNames[i]
    ELSE <<tmpPrefix>> \o tmpNames[i] \o ToDecimal(Occurrence(i) - 1)

\* C7 as stated: the k-th request for a name returns prefix + name (k = 1) or
\* prefix + name + (k - 1), whatever other names are asked for in between.
C7_AsStated ==
    IsSome(tmpFiles) =>
        \A i \in 1..Len(Val(tmpFiles)) : Val(tmpFiles)[i] = NumberedPath(i)

\* name m is name n followed by one or more decimal digits
FollowedByDigits(m, n) ==
    /\ Len(m) > Len(n)
    /\ SubSeq(m, 1, Len(n)) = n
    /\ \A i \in (Len(n) + 1)..Len(m) : m[i] \in Range(DigitChar)

\* C7 amended: the numbering holds in a session in which no name asked for
\* is another name asked for followed by decimal digits.
C7_Numbered ==
    (/\ IsSome(tmpFiles)
     /\ \A i, j \in 1..Len(tmpNames) : ~FollowedByDigits(tmpNames[i], tmpNames[j]))
    => \A i \in 1..Len(Val(tmpFiles)) : Val(tmpFiles)[i] = NumberedPath(i)

\* a name asked for three times with another name in between
C7_Witness ==
    /\ IsSome(tmpFiles)
    /\ tmpNames = <<<<"f", "o", "o">>, <<"k", "e", "y">>,
                    <<"f", "o", "o">>, <<"f", "o", "o">>>>
    /\ Val(tmpFiles)[4] = <<tmpPrefix, "f", "o", "o", "2">>

\* C8: when tmpClear() completes, none of the paths of the array it went
\* through exists, whether or not each had been created.
C8_ClearedPathsAbsent ==
    [][\A c \in DOMAIN call :
          (call[c].pc = "clear_unlink" /\ call'[c].pc # "clear_unlink")
          => \A p \in Range(ClearArray(c)) : p \notin DOMAIN fs']_vars

\* a tmpClear() that completed after removing a file and after meeting a path
\* nothing had been written at
C8_Witness ==
    \E c \in DOMAIN call :
        /\ call[c].op = "tmpClear"
        /\ call[c].pc = "done"
        /\ {"unlinked", "missing"} \subseteq call[c].effects

\* C9: tmpClear() never fails: it ends without an error when the registry
\* was never initialised, when a path was never created, and when it is
\* called again right after a clear.
C9_ClearNeverThrows ==
    \A c \in DOMAIN call :
        (call[c].op = "tmpClear" /\ call[c].pc = "done") => call[c].result = "ok"

\* a clear that met a path never created, followed by a second clear that
\* found the registry reset
C9_Witness ==
    /\ call[1].op = "tmpClear" /\ call[1].pc = "done"
    /\ "missing" \in call[1].effects
    /\ call[2].op = "tmpClear" /\ call[2].pc = "done"
    /\ call[2].effects = {}
    /\ call[2].result = "ok"

(* ------------------------- claims on the pipeline --------------------- *)
DevCertCalls == {c \in DOMAIN call : call[c].op = "generateDevCert"}

DevCertDone == {c \in DevCertCalls : call[c].pc = "done"}

ValidationErrors == {"openssl-missing", "invalid-cn"}

Has(l, e) == \E i \in 1..Len(l) : l[i] = e

Before(l, a, b) == \E i, j \in 1..Len(l) : i < j /\ l[i] = a /\ l[j] = b

\* C1: every generateDevCert call that passed validation has, when it is
\* over, started tmpClear and run it to completion, whether it returned the
\* bundle or failed in configuration building, root generation, trust-store
\* installation, leaf issuance or the reading of the result files.
C1_CleanupOnEveryExit ==
    \A c \in DevCertDone :
        call[c].err \notin ValidationErrors =>
            /\ Before(call[c].log, "clearStart", "clearEnd")
            /\ call[c].log[Len(call[c].log)] = "clearEnd"

\* two calls that failed after validation, one in the trust-store installer
\* and one in the toolkit, are over and both ran the cleanup
C1_Witness ==
    \E c, d \in DevCertDone :
        /\ call[c].err = "truststore"
        /\ Has(call[c].log, "clearEnd")
        /\ call[d].err = "toolkit"
        /\ Has(call[d].log, "clearEnd")

SupportedPlatforms == {"darwin", "linux", "win32"}

TrustStoreErrors == {"truststore", "certutil"}

\* C2: on a supported platform no generateDevCert call for a valid common name
\* ends with a failure of the trust-store installation (a privileged command
\* that fails, an NSS installation that fails, a missing NSS tool): the call
\* goes on to the leaf certificate and the bundle.
C2_InstallFailureNeverSurfaces ==
    \A c \in DevCertDone :
        (platform \in SupportedPlatforms /\ MatchesCommonName(call[c].commonName))
            => call[c].err \notin TrustStoreErrors

\* C3: in every generateDevCert call the trust-store installation starts
\* after the root certificate is there, the leaf issuance starts after the
\* installation is over, and the cleanup starts after the leaf issuance and
\* the reading of the result files are over; nothing of the three phases
\* happens once the cleanup has started.
C3_PhaseOrder ==
    \A c \in DevCertCalls :
        LET l == call[c].log
        IN /\ Has(l, "installStart") => Before(l, "rootEnd", "installStart")
           /\ Has(l, "leafStart") => /\ Before(l, "rootEnd", "installStart")
                                       /\ Before(l, "installStart", "installEnd")
                                       /\ Before(l, "installEnd", "leafStart")
           /\ (Has(l, "clearStart") /\ call[c].err = "none")
                 => /\ Before(l, "leafStart", "leafEnd")
                    /\ Before(l, "leafEnd", "readEnd")
                    /\ Before(l, "readEnd", "clearStart")
           /\ \A i, j \in 1..Len(l) :
                 (i < j /\ l[i] = "clearStart") => l[j] = "clearEnd"

\* a call that went through the interactive Firefox flow returned the bundle
C3_Witness ==
    \E c \in DevCertDone :
        /\ call[c].result = "bundle"
        /\ "browser" \in call[c].effects
        /\ Has(call[c].log, "clearEnd")

\* C4: once a generateDevCert call is over and before the next one starts,
\* none of the working files the call used (configuration, ledger, serial,
\* key, signing request, certificate, random-seed file) is on disk.
C4_NoWorkingFileRemains ==
    \A c \in DevCertDone :
        (\A d \in DOMAIN call : d > c => call[d].pc = "idle")
            => call[c].used \cap DOMAIN fs = {}

\* the empty name, a name with a line terminator, a name of 65 characters
MalformedNames == {CNEmpty, CNNewline, CNLong}

\* C5: a generateDevCert call that finds the toolkit missing or the common
\* name malformed fails at once, and that step allocates no registry path,
\* writes no file and runs no toolkit or trust-store command.
C5_FailsFast ==
    [][\A c \in DOMAIN call :
          (/\ call[c].pc = "gdc_cmdexists"
           /\ call'[c].pc # "gdc_cmdexists"
           /\ \/ call[c].commonName \in MalformedNames
              \/ call'[c].err = "openssl-missing")
          => /\ call'[c].pc = "done"
             /\ call'[c].result = "throw"
             /\ call'[c].effects = {}
             /\ call'[c].used = {}
             /\ UNCHANGED <<tmpPrefix, tmpFiles, tmpNames, rndFile,
                            cachedConfPaths, cachedRoot, fs, dirs, listeners>>]_vars

\* one call failed for the missing toolkit, one for a name that is too long
C5_Witness ==
    \E c, d \in DevCertDone :
        /\ call[c].err = "openssl-missing"
        /\ call[d].err = "invalid-cn"
        /\ call[d].commonName = CNLong
        /\ call[d].effects = {}

(* ------------------------- claims on the engine ----------------------- *)
RootCalls == {c \in DOMAIN call : call[c].op = "generateRootCertificate"}

RootOk == {c \in RootCalls : call[c].pc = "done" /\ call[c].result = "ok"}

\* C10 as stated: any two successful generateRootCertificate calls for the
\* same common name wrote the same certificate and the same key, whatever
\* was called between them.
C10_AsStated ==
    \A c, d \in RootOk :
        call[c].commonName = call[d].commonName => call[c].bundle = call[d].bundle

\* C10: two successful generateRootCertificate calls for the same common name
\* wrote the same certificate and the same key, provided no call for another
\* common name succeeded between them (the cache holds one record; such a call
\* replaces it); the key is the same in any case.
C10_SameUnlessEvicted ==
    \A c, d \in RootOk :
        (c < d /\ call[c].commonName = call[d].commonName) =>
            /\ Val(call[c].bundle).key = Val(call[d].bundle).key
            /\ (\A e \in RootOk : (c < e /\ e < d) =>
                                     call[e].commonName = call[c].commonName)
                  => call[c].bundle = call[d].bundle

\* a call for foo succeeded, a call for bar failed, a second call for foo
\* found foo's record in the cache
C10_Witness ==
    \E c, e, d \in RootCalls :
        /\ c < e /\ e < d
        /\ c \in RootOk /\ d \in RootOk
        /\ call[c].commonName = CNFoo /\ call[d].commonName = CNFoo
        /\ call[e].pc = "done" /\ call[e].result = "throw"
        /\ call[e].commonName = CNBar
        /\ "hit" \in call[d].effects

ConfIntact(f, path) ==
    /\ path \in DOMAIN f
    /\ f[path].data.kind = "conf"
    /\ f[path].data.databasePath \in DOMAIN f
    /\ f[path].data.serialPath \in DOMAIN f

\* C12: whenever generateOpensslConf has returned a path, on the first call
\* for a name and on a cached repeat, the configuration file is at that path
\* and the ledger and serial files it names are on disk.
C12_ReturnedConfOnDisk ==
    \A c \in DOMAIN call :
        call[c].pc = "conf_done" => ConfIntact(fs, call[c].opensslConfPath)

(* --------------------- claims on the trust-store installer ------------ *)
\* C13: for a candidate directory whose attempt is over, the commands that
\* ran are exactly the legacy-format one if cert8.db was found, exactly the
\* modern-format one if cert8.db was not found and cert9.db was, and none if
\* neither was found; the modern-format command did not run for a directory
\* with cert8.db.
C13_OneCommandByMarker ==
    \A c \in DOMAIN call : \A d \in DOMAIN call[c].nss :
        LET a == call[c].nss[d]
        IN a.st = "done" =>
              a.ran = IF "cert8" \in a.has THEN {"legacy"}
                      ELSE IF "cert9" \in a.has THEN {"modern"}
                      ELSE {}

\* where a call is while it is inside the trust-store installer
InstallerPositions ==
    {"mac_security", "linux_cmd", "win_certutil", "nss_brew_exists",
     "nss_brew_prefix", "nss_brew_install", "nss_certutil_exists", "nss_apt",
     "nss_which", "nss_looked_up", "nss_ps", "nss_glob", "nss_dirs",
     "ff_getport", "ff_wait"}

InstallerEffects == {"truststore", "install", "listen", "browser"}

\* C14: on a platform other than darwin, linux and win32 the installer is
\* never entered (no command, no listener, no wait for the operator), no
\* leaf issuance starts, and a generateDevCert call that reached the
\* installer ends, after the cleanup, with the platform error.
C14_UnsupportedPlatformFails ==
    platform \notin SupportedPlatforms =>
        /\ listeners = {}
        /\ \A c \in DevCertCalls :
              /\ call[c].pc \notin InstallerPositions
              /\ call[c].effects \cap InstallerEffects = {}
              /\ ~Has(call[c].log, "installEnd")
              /\ ~Has(call[c].log, "leafStart")
              /\ (call[c].pc = "done" /\ Has(call[c].log, "installStart"))
                    => /\ call[c].result = "throw"
                       /\ call[c].err = "platform"
                       /\ call[c].log[Len(call[c].log)] = "clearEnd"

\* on freebsd a call reached the installer and is over
C14_Witness ==
    /\ platform = "freebsd"
    /\ \E c \in DevCertDone :
          /\ Has(call[c].log, "installStart")
          /\ call[c].err = "platform"

(* --------------------- claims on the certificate cache ---------------- *)
\* the cache holds no name and no certificate, or a name and a certificate
\* issued for that name
CacheConsistent ==
    \/ /\ ~IsSome(cachedRoot.cert)
       /\ cachedRoot.commonName = << >>
    \/ /\ IsSome(cachedRoot.cert)
       /\ Val(cachedRoot.cert).kind = "cert"
       /\ Val(cachedRoot.cert).subject = cachedRoot.commonName
       /\ Val(cachedRoot.cert).issuer = cachedRoot.commonName

\* a root-certificate call that missed the cache fails, in the toolkit or in
\* the reading of the certificate
MissFails(c) ==
    /\ call[c].pc \in {"root_req", "root_reading"}
    /\ call'[c].pc = "done"
    /\ call'[c].result = "throw"

\* C15: between any two steps of overlapping generateRootCertificate calls
\* the cache holds no name and no certificate, or a name with a certificate
\* the toolkit issued for that name; a miss that fails leaves the cached name
\* and certificate as they were.
C15_CacheAtomic ==
    /\ []CacheConsistent
    /\ [][\A c \in DOMAIN call :
             MissFails(c) => /\ cachedRoot'.cert = cachedRoot.cert
                             /\ cachedRoot'.commonName = cachedRoot.commonName]_vars

\* the cache holds bar's certificate after it held foo's, and a miss failed
C15_Witness ==
    /\ cachedRoot.commonName = CNBar
    /\ IsSome(cachedRoot.cert)
    /\ \E c, d \in RootCalls :
          /\ call[c].commonName = CNFoo /\ call[c].pc = "done"
          /\ call[c].result = "ok" /\ "miss" \in call[c].effects
          /\ call[d].commonName = CNBar /\ call[d].pc \in {"root_reading", "done"}

\* C16: a certificate held in the cache was created with the private key
\* that is held in the cache, under any interleaving of overlapping calls.
C16_CachedCertMatchesKey ==
    (IsSome(cachedRoot.cert) /\ Val(cachedRoot.cert).kind = "cert") =>
        /\ IsSome(cachedRoot.key)
        /\ Val(cachedRoot.cert).key = Val(cachedRoot.key)

(* ------------------ claims on overlapping generateDevCert ------------- *)
\* a generateDevCert call that has not yet read its result files
StillIssuing(d) ==
    /\ call[d].op = "generateDevCert"
    /\ call[d].pc \notin {"idle", "done", "gdc_finally", "clear_unlink",
                          "gdc_cleared"}

Tracked(p) == IsSome(tmpFiles) /\ p \in Range(Val(tmpFiles))

\* C17: while a generateDevCert call has not yet read its result files, no
\* step of the process deletes a path the call allocated, and none drops such
\* a path from the registry: the cleanup of an overlapping call spares them.
C17_CleanupSparesRunningCalls ==
    [][\A d \in DOMAIN call :
          StillIssuing(d) =>
              \A p \in call[d].used :
                  /\ (p \in DOMAIN fs) => (p \in DOMAIN fs')
                  /\ Tracked(p) => Tracked(p)']_vars

(* ------------------ claims on generateSignedCertificate --------------- *)
\* the call is past generateSignedCertificate(), which returned or threw
LeafFinished(c) ==
    /\ Has(call[c].log, "leafStart")
    /\ call[c].pc \in {"leaf_done", "gdc_finally", "clear_unlink", "gdc_cleared"}

\* C18: once generateSignedCertificate has finished, with a certificate or
\* with an error, the throwaway output directory it created does not exist.
C18_ThrowawayDirRemoved ==
    \A c \in DOMAIN call :
        LeafFinished(c) => call[c].caCertsDir \notin dirs

(* -------------------- claims on the platform branches ----------------- *)
\* C19: on linux the NSS installation into ~/.pki/nssdb never fails the
\* installer and never opens the certificate in Firefox: a call that entered
\* it carries no error and is not in the interactive flow.
C19_NssdbFailureSkipped ==
    \A c \in DOMAIN call :
        (platform = "linux" /\ call[c].site = "linux_chrome") =>
            /\ call[c].err = "none"
            /\ call[c].pc \notin {"ff_getport", "ff_wait"}

\* inside addCertificateToNSSCertDB() before glob(): the lookup of certutil
\* and the test for a running Firefox; a call leaves them for glob() or by
\* a rejection
NssBeforeGlob ==
    {"nss_brew_exists", "nss_brew_prefix", "nss_brew_install",
     "nss_certutil_exists", "nss_apt", "nss_which", "nss_looked_up", "nss_ps"}

\* C20: on darwin, when the NSS installation for Firefox fails, the next
\* thing the installer does is open the certificate in Firefox, and the call
\* carries no error.
C20_MacFallsBackToFirefox ==
    [][\A c \in DOMAIN call :
          (/\ platform = "darwin"
           /\ call[c].site = "mac_firefox"
           /\ call[c].pc \in NssBeforeGlob
           /\ call'[c].pc \notin NssBeforeGlob \cup {"nss_glob"})
              => /\ call'[c].pc = "ff_getport"
                 /\ call'[c].err = "none"]_vars

(* ---------------------- claims on addCertificateToNSSCertDB ------------- *)
\* C21: while the directories of an NSS installation are being tried, the
\* call carries no error, and it leaves that stretch only when every matched
\* directory has been tried to its end, without an error and with the
\* installation resolved: no failed probe or command in one directory stops
\* another directory's attempt or the call.
C21_DirectoriesIndependent ==
    [][\A c \in DOMAIN call :
          call[c].pc = "nss_dirs" =>
              /\ call'[c].err = "none"
              /\ call'[c].pc # "nss_dirs" =>
                    /\ \A d \in DOMAIN call[c].nss : call[c].nss[d].st = "done"
                    /\ call'[c].pc \in {"install_done", "nss_certutil_exists"}]_vars

\* a directory whose legacy command failed and whose modern command was
\* tried, next to another directory whose command was issued all the same
C21_Witness ==
    \E c \in DOMAIN call :
        /\ call[c].pc = "nss_dirs"
        /\ \E d, e \in DOMAIN call[c].nss :
              /\ d # e
              /\ call[c].nss[d].st = "done"
              /\ call[c].nss[d].ran = {"legacy", "modern"}
              /\ call[c].nss[e].st = "done"
              /\ call[c].nss[e].ran # {}

\* inside addCertificateToNSSCertDB()
NssInside == NssBeforeGlob \cup {"nss_glob", "nss_dirs"}

ToolkitPositions == {"key_genrsa", "root_req", "leaf_csr", "leaf_ca"}

\* the finally block of generateDevCert and the settled call
CleanupPositions == {"gdc_finally", "clear_unlink", "gdc_cleared", "done"}

CommandEffects ==
    {"toolkit", "genrsa", "miss", "truststore", "install", "listen", "browser"}

\* C23: a toolkit command of a generateDevCert call that fails sends the call
\* to its finally block with the toolkit error: the command is not run again;
\* from then on the call keeps the error, is only in its cleanup, starts no
\* toolkit or trust-store command, and it settles as a rejection after
\* tmpClear has run to its end.
C23_ToolkitFailureAborts ==
    [][\A c \in DOMAIN call :
          /\ (/\ call[c].op = "generateDevCert"
              /\ call[c].pc \in ToolkitPositions
              /\ (faults' # faults \/ call'[c].err # "none"))
                => /\ call'[c].pc = "gdc_finally"
                   /\ call'[c].err = "toolkit"
          /\ (call[c].op = "generateDevCert" /\ call[c].err = "toolkit")
                => /\ call'[c].err = "toolkit"
                   /\ call[c].pc \in CleanupPositions
                   /\ call'[c].pc \in CleanupPositions
                   /\ call'[c].effects \cap CommandEffects
                         \subseteq call[c].effects
                   /\ call'[c].pc = "done" =>
                         /\ call'[c].result = "throw"
                         /\ Before(call'[c].log, "clearStart", "clearEnd")]_vars

\* a call whose toolkit command failed during the leaf issuance, rejected
\* after its cleanup
C23_Witness ==
    \E c \in DOMAIN call :
        /\ call[c].op = "generateDevCert"
        /\ call[c].pc = "done"
        /\ call[c].err = "toolkit"
        /\ call[c].result = "throw"
        /\ Has(call[c].log, "leafStart")
        /\ Has(call[c].log, "clearEnd")

(* --------------------------- claims on openssl() ---------------------- *)
OpensslDone == {c \in DOMAIN call : call[c].op = "openssl" /\ call[c].pc = "done"}

\* C24 as stated: a toolkit invocation whose child wrote nothing to stdout
\* and something to stderr fails, whatever its exit status.
C24_AsStated ==
    \A c \in OpensslDone :
        (Val(call[c].buf).stdout = << >> /\ Val(call[c].buf).stderr # << >>)
            => call[c].result = "throw"

\* C24: a toolkit invocation of the engine fails exactly when the child's
\* exit status is not zero; with status zero it resolves whatever the child
\* wrote to stdout and stderr.
C24_FailsOnExitStatusOnly ==
    \A c \in OpensslDone :
        (call[c].result = "throw") <=> (Val(call[c].buf).status # 0)

\* an invocation with status zero, an empty stdout and a non-empty stderr has
\* resolved
C24_Witness ==
    \E c \in OpensslDone :
        /\ Val(call[c].buf).status = 0
        /\ Val(call[c].buf).stdout = << >>
        /\ Val(call[c].buf).stderr # << >>
        /\ call[c].result = "resolve"

(* --------------------------- claims on generateKey -------------------- *)
\* C25 as stated: in a sequential run the key-generation command is started
\* by at most one call.
C25_AsStated ==
    Cardinality({c \in DOMAIN call : "genrsa" \in call[c].effects}) <= 1

\* C25: in a sequential run, once a key is cached it is never replaced and
\* the key-generation command is never started again; every generateKey call
\* after that, for a root or a leaf, writes the cached key to a path it has
\* just allocated, which is tracked and held no file before.
C25_CachedKeyReused ==
    [][IsSome(cachedRoot.key) =>
          /\ cachedRoot'.key = cachedRoot.key
          /\ \A c \in DOMAIN call :
                /\ call'[c].pc # "key_genrsa"
                /\ (/\ call[c].pc = "key_writing"
                    /\ call'[c].pc \in {"root_key_done", "leaf_key_done"})
                      => /\ call[c].keyFile \notin DOMAIN fs
                         /\ call[c].keyFile \in call[c].used
                         /\ Tracked(call[c].keyFile)
                         /\ fs'[call[c].keyFile].data = Val(cachedRoot.key)]_vars

\* a later call, which did not run the key-generation command, has written
\* the cached key for its leaf certificate
C25_Witness ==
    \E c, d \in DOMAIN call :
        /\ "genrsa" \in call[c].effects
        /\ call[c].pc = "done"
        /\ "genrsa" \notin call[d].effects
        /\ call[d].pc = "leaf_key_done"
        /\ call[d].commonName # call[c].commonName
        /\ call[d].keyFilePath \in DOMAIN fs
        /\ fs[call[d].keyFilePath].data = Val(cachedRoot.key)

(* ----------------------- claims on the fallback server ---------------- *)
\* C26: every answer a listening server has given is complete: status 200,
\* the content type of a CA certificate, the root certificate as the body,
\* and the response ended.
C26_EveryRequestAnswered ==
    \A l \in listeners : \A a \in l.answers :
        /\ a.status = 200
        /\ a.type = "application/x-x509-ca-cert"
        /\ IsSome(a.body)
        /\ Val(a.body).kind = "cert"
        /\ a.ended

(* ---------------------- claims on lookupOrInstallCertutil ------------- *)
\* C27: on linux the package is installed exactly when the NSS tool was
\* found missing, and a lookup that resolves yields the path of the tool.
C27_InstallsOnlyIfMissing ==
    [][\A c \in DOMAIN call :
          platform = "linux" =>
              /\ (call[c].pc = "nss_certutil_exists" /\ call'[c].pc # call[c].pc)
                    => (call'[c].pc = "nss_apt" <=> call'[c].toolFound = "no")
              /\ call'[c].pc = "nss_looked_up"
                    => call'[c].certutilPath = InstalledCertutil]_vars

(* ----------------------- claims on key file modes --------------------- *)
\* the permission bits of a mode for the group and for the others: the two
\* low octal digits
GroupOtherBits(mode) == mode % 64

\* C28: the key file generateKey has returned, written from the cache or
\* generated, has a mode without any permission for the group or the others.
C28_KeyFilesOwnerOnly ==
    \A c \in DOMAIN call :
        (call[c].keyFilePath # NoPath /\ call[c].keyFilePath \in DOMAIN fs)
            => GroupOtherBits(fs[call[c].keyFilePath].mode) = 0

(* ----------------------------- termination ---------------------------- *)
\* C29: in a responsive environment every generateDevCert call that has
\* started comes to its end, with the bundle or with an error, and a call
\* that started tmpClear has by then run it to its end.
C29_EveryCallFinishes ==
    \A c \in Calls :
        (call[c].pc # "idle") ~>
            (/\ call[c].pc = "done"
             /\ call[c].result \in {"bundle", "throw"}
             /\ Has(call[c].log, "clearStart") => Has(call[c].log, "clearEnd"))

\* a call that waited for the operator twice has returned its bundle after
\* its cleanup
C29_Witness ==
    \E c \in DOMAIN call :
        /\ call[c].op = "generateDevCert"
        /\ call[c].pc = "done"
        /\ call[c].result = "bundle"
        /\ "browser" \in call[c].effects
        /\ Has(call[c].log, "clearEnd")

====
